---- MODULE Spec2Model ----
(***************************************************************************)
(* PIFP protocol contract (contracts/pifp_protocol): role registry,        *)
(* project store and project lifecycle, as a state machine.                *)
(*                                                                         *)
(* Every entry point of lib.rs is an operator that takes the contract's    *)
(* storage `s` and the call's arguments and returns an outcome record      *)
(*     [err, st, ret, events]                                              *)
(* err is "Ok" or the error/panic the call ends with, st the storage after *)
(* the call (the host rolls a failed call back, so st = s on failure), ret *)
(* the value returned and events the notifications published by the call.  *)
(* Each action of Next applies one entry point to the current storage.     *)
(*                                                                         *)
(* rbac.rs is not among the sources; the role registry is modelled from    *)
(* section 4.1 of the specification.  Role-change notifications, which     *)
(* that module would publish, are outside the model.                       *)
(***************************************************************************)
EXTENDS Integers, Sequences, FiniteSets, TLC

\* ------------------------------------------------------------------ bounds

MaxProjects == 2      \* register_project is not called once this many exist
MaxTime == 2          \* ledger timestamps 0..MaxTime
MaxGoal == 1          \* goals offered to register_project: -1..MaxGoal
MaxAmount == 1        \* amounts offered to deposit: -1..MaxAmount
InitialMint == 2      \* asset balance every address starts with, per token
MaxI128 == 3          \* stands for i128::MAX, the width of balances and amounts

Address == {"a1", "a2"}
ContractAddress == "contract"
Holders == Address \cup {ContractAddress}
Tokens == {"t1"}
Hashes == {"h1", "h2"}
GoalInputs == (-1)..MaxGoal
AmountInputs == (-1)..MaxAmount
DeadlineInputs == 0..MaxTime

\* ------------------------------------------------------------------- types

Role == {"SuperAdmin", "Admin", "ProjectManager", "Oracle"}
NoRole == "None"
NoAddress == "unset"
ProjectStatus == {"Funding", "Active", "Completed", "Expired"}

ErrProjectNotFound == "Error::ProjectNotFound"
ErrMilestoneAlreadyReleased == "Error::MilestoneAlreadyReleased"
ErrInvalidMilestones == "Error::InvalidMilestones"
ErrNotAuthorized == "Error::NotAuthorized"
ErrAlreadyInitialized == "Error::AlreadyInitialized"
ErrRoleNotFound == "Error::RoleNotFound"
PanicProjectNotFound == "panic: project not found"
PanicOracleNotSet == "panic: oracle not set"
PanicHashMismatch == "panic: proof verification failed: hash mismatch"
PanicOverflow == "panic: attempt to add with overflow"
AuthFailed == "host: require_auth failed"
TransferFailed == "token: transfer failed"

VARIABLES
    initialized,    \* rbac: init has run
    roles,          \* rbac: address -> role or NoRole
    ProjectCount,   \* instance storage, DataKey::ProjectCount
    OracleKey,      \* instance storage, DataKey::OracleKey (NoAddress: absent)
    ProjConfig,     \* persistent storage, DataKey::ProjConfig(id)
    ProjState,      \* persistent storage, DataKey::ProjState(id)
    tokenBalance,   \* the asset contracts' ledgers: token -> holder -> amount
    timestamp,      \* env.ledger().timestamp()
    returned_ids,   \* ids of the projects returned by register_project, in call order
    ledger_seq,     \* env.ledger().sequence(), in ledgers
    live_until,     \* persistent storage: key -> last ledger the entry is live in
    db_events,      \* indexer database: the rows of table `events`, in insertion order
    cursor_row,     \* indexer database: row 1 of table `indexer_cursor`
    running,        \* indexer: the loop of run is alive
    current_ledger, \* indexer, run: the local current_ledger
    cursor,         \* indexer, run: the local cursor
    fetch_pc,       \* fetch_events: "idle", "loop", or how it returned ("ok", "err")
    backoff,        \* fetch_events: the local backoff, in seconds
    slept,          \* fetch_events: the delays slept since the call, in order
    fetch_ret       \* fetch_events: what the last call returned

vars == <<initialized, roles, ProjectCount, OracleKey, ProjConfig, ProjState,
          tokenBalance, timestamp, returned_ids, ledger_seq, live_until, db_events,
          cursor_row, running, current_ledger, cursor, fetch_pc, backoff, slept,
          fetch_ret>>

\* What the contract's entry points leave alone in the specification Spec,
\* which follows neither entry lifetimes nor the indexer.
lifetimes == <<ledger_seq, live_until>>
indexer == <<db_events, cursor_row, running, current_ledger, cursor>>
fetcher == <<fetch_pc, backoff, slept, fetch_ret>>
contract == <<initialized, roles, ProjectCount, OracleKey, ProjConfig, ProjState,
              tokenBalance, timestamp, returned_ids>>

\* The contract's storage and environment as one value.
Cur ==
    [initialized |-> initialized, roles |-> roles, ProjectCount |-> ProjectCount,
     OracleKey |-> OracleKey, ProjConfig |-> ProjConfig, ProjState |-> ProjState,
     tokenBalance |-> tokenBalance, timestamp |-> timestamp]

Ok(s, ret, events) == [err |-> "Ok", st |-> s, ret |-> ret, events |-> events]
Fail(s, e) == [err |-> e, st |-> s, ret |-> <<>>, events |-> <<>>]

\* ------------------------------------------------------- rbac (from spec 4.1)

role_of(s, address) == s.roles[address]
has_role(s, address, role) == s.roles[address] = role

require_can_register(s, address) ==
    s.roles[address] \in {"SuperAdmin", "Admin", "ProjectManager"}
require_admin_or_above(s, address) == s.roles[address] \in {"SuperAdmin", "Admin"}
require_oracle(s, address) == s.roles[address] = "Oracle"

\* Mutant of rbac_init_super_admin: the already-initialised check is missing.
rbac_init_super_admin_again(s, super_admin) ==
    Ok([s EXCEPT !.initialized = TRUE, !.roles[super_admin] = "SuperAdmin"],
       <<>>, <<>>)

rbac_init_super_admin(s, super_admin) ==
    IF s.initialized THEN Fail(s, ErrAlreadyInitialized)
    ELSE Ok([s EXCEPT !.initialized = TRUE, !.roles[super_admin] = "SuperAdmin"],
            <<>>, <<>>)

\* Mutant of rbac_grant_role: any Admin may grant SuperAdmin.
rbac_grant_role_any_admin(s, caller, target, role) ==
    IF ~require_admin_or_above(s, caller) THEN Fail(s, ErrNotAuthorized)
    ELSE Ok([s EXCEPT !.roles[target] = role], <<>>, <<>>)

\* Mutant of rbac_grant_role: a target that already holds a role keeps it.
rbac_grant_role_keep_existing(s, caller, target, role) ==
    IF ~require_admin_or_above(s, caller) THEN Fail(s, ErrNotAuthorized)
    ELSE IF role = "SuperAdmin" /\ ~has_role(s, caller, "SuperAdmin")
    THEN Fail(s, ErrNotAuthorized)
    ELSE IF s.roles[target] # NoRole THEN Ok(s, <<>>, <<>>)
    ELSE Ok([s EXCEPT !.roles[target] = role], <<>>, <<>>)

rbac_grant_role(s, caller, target, role) ==
    IF ~require_admin_or_above(s, caller) THEN Fail(s, ErrNotAuthorized)
    ELSE IF role = "SuperAdmin" /\ ~has_role(s, caller, "SuperAdmin")
    THEN Fail(s, ErrNotAuthorized)
    ELSE Ok([s EXCEPT !.roles[target] = role], <<>>, <<>>)

\* Mutant of rbac_revoke_role: the SuperAdmin is not protected.
rbac_revoke_role_any(s, caller, target) ==
    IF ~require_admin_or_above(s, caller) THEN Fail(s, ErrNotAuthorized)
    ELSE IF s.roles[target] = NoRole THEN Fail(s, ErrRoleNotFound)
    ELSE Ok([s EXCEPT !.roles[target] = NoRole], <<>>, <<>>)

rbac_revoke_role(s, caller, target) ==
    IF ~require_admin_or_above(s, caller) THEN Fail(s, ErrNotAuthorized)
    ELSE IF s.roles[target] = NoRole THEN Fail(s, ErrRoleNotFound)
    ELSE IF s.roles[target] = "SuperAdmin" THEN Fail(s, ErrNotAuthorized)
    ELSE Ok([s EXCEPT !.roles[target] = NoRole], <<>>, <<>>)

\* Mutant of rbac_transfer_super_admin: the current holder keeps the role.
rbac_transfer_super_admin_keep(s, current, new) ==
    IF ~has_role(s, current, "SuperAdmin") THEN Fail(s, ErrNotAuthorized)
    ELSE Ok([s EXCEPT !.roles[new] = "SuperAdmin"], <<>>, <<>>)

rbac_transfer_super_admin(s, current, new) ==
    IF ~has_role(s, current, "SuperAdmin") THEN Fail(s, ErrNotAuthorized)
    ELSE Ok([s EXCEPT !.roles[current] = NoRole, !.roles[new] = "SuperAdmin"],
            <<>>, <<>>)

\* ------------------------------------------------------------- storage.rs

\* Mutant of next_project_id: the counter is stored back unchanged.
next_project_id_stuck(current) == current

next_project_id(current) == current + 1

\* Mutant of get_and_increment_project_id: returns the incremented value.
get_and_increment_project_id_post(s) ==
    <<s.ProjectCount + 1, [s EXCEPT !.ProjectCount = s.ProjectCount + 1]>>

\* Returns <<id for the current project, storage with the counter stored>>.
get_and_increment_project_id(s) ==
    <<s.ProjectCount, [s EXCEPT !.ProjectCount = next_project_id(s.ProjectCount)]>>

get_oracle(s) == s.OracleKey

\* Mutant of save_project: the State entry is not written.
save_project_config_only(s, project) ==
    LET config == [id |-> project.id, creator |-> project.creator,
                   token |-> project.token, goal |-> project.goal,
                   proof_hash |-> project.proof_hash, deadline |-> project.deadline]
    IN  [s EXCEPT !.ProjConfig = (project.id :> config) @@ s.ProjConfig]

save_project(s, project) ==
    LET config == [id |-> project.id, creator |-> project.creator,
                   token |-> project.token, goal |-> project.goal,
                   proof_hash |-> project.proof_hash, deadline |-> project.deadline]
        state == [balance |-> project.balance, status |-> project.status]
    IN  [s EXCEPT !.ProjConfig = (project.id :> config) @@ s.ProjConfig,
                  !.ProjState = (project.id :> state) @@ s.ProjState]

has_project_config(s, id) == id \in DOMAIN s.ProjConfig
has_project_state(s, id) == id \in DOMAIN s.ProjState
load_project_config(s, id) == s.ProjConfig[id]
load_project_state(s, id) == s.ProjState[id]

load_project(s, id) ==
    LET config == load_project_config(s, id)
        state == load_project_state(s, id)
    IN  [id |-> config.id, creator |-> config.creator, token |-> config.token,
         goal |-> config.goal, balance |-> state.balance,
         proof_hash |-> config.proof_hash, deadline |-> config.deadline,
         status |-> state.status]

\* Mutant of save_project_state: the state is written to every project.
save_project_state_all(s, id, state) ==
    [s EXCEPT !.ProjState = [i \in DOMAIN s.ProjState \cup {id} |-> state]]

save_project_state(s, id, state) ==
    [s EXCEPT !.ProjState = (id :> state) @@ s.ProjState]

\* ------------------------------------------------- the asset interface

\* token::Client::transfer of a Stellar asset contract: a negative amount, an
\* amount the sender does not hold, or a balance that would not fit the
\* receiver's i128 makes the call fail; otherwise the amount moves.
\* Mutant of token_transfer_ok: the sender's holdings are not checked.
token_transfer_ok_no_funds_check(bal, token, from, to, amount) ==
    /\ amount >= 0
    /\ (from # to => bal[token][to] + amount <= MaxI128)

token_transfer_ok(bal, token, from, to, amount) ==
    /\ amount >= 0
    /\ bal[token][from] >= amount
    /\ (from # to => bal[token][to] + amount <= MaxI128)

\* Mutant of token_transfer: the receiver is not credited.
token_transfer_no_credit(bal, token, from, to, amount) ==
    IF from = to THEN bal
    ELSE [bal EXCEPT ![token][from] = @ - amount]

token_transfer(bal, token, from, to, amount) ==
    IF from = to THEN bal
    ELSE [bal EXCEPT ![token][from] = @ - amount, ![token][to] = @ + amount]

\* ------------------------------------------------------------------ lib.rs

init(s, super_admin) == rbac_init_super_admin(s, super_admin)

grant_role(s, caller, target, role) == rbac_grant_role(s, caller, target, role)

revoke_role(s, caller, target) == rbac_revoke_role(s, caller, target)

transfer_super_admin(s, current_super_admin, new_super_admin) ==
    rbac_transfer_super_admin(s, current_super_admin, new_super_admin)

goal_invalid(goal) == goal <= 0

\* Mutant of deadline_invalid: a deadline equal to the current time passes.
deadline_invalid_strict(deadline, now) == deadline < now

deadline_invalid(deadline, now) == deadline <= now

\* Mutant of register_project: the rbac gate is missing.
register_project_ungated(s, creator, token, goal, proof_hash, deadline) ==
    IF goal_invalid(goal) THEN Fail(s, ErrInvalidMilestones)
    ELSE IF deadline_invalid(deadline, s.timestamp) THEN Fail(s, ErrInvalidMilestones)
    ELSE LET got == get_and_increment_project_id(s)
             project == [id |-> got[1], creator |-> creator, token |-> token,
                         goal |-> goal, balance |-> 0, proof_hash |-> proof_hash,
                         deadline |-> deadline, status |-> "Funding"]
         IN  Ok(save_project(got[2], project), project, <<>>)

\* Mutant of register_project: the project starts in status Active.
register_project_active(s, creator, token, goal, proof_hash, deadline) ==
    IF ~require_can_register(s, creator) THEN Fail(s, ErrNotAuthorized)
    ELSE IF goal_invalid(goal) THEN Fail(s, ErrInvalidMilestones)
    ELSE IF deadline_invalid(deadline, s.timestamp) THEN Fail(s, ErrInvalidMilestones)
    ELSE LET got == get_and_increment_project_id(s)
             project == [id |-> got[1], creator |-> creator, token |-> token,
                         goal |-> goal, balance |-> 0, proof_hash |-> proof_hash,
                         deadline |-> deadline, status |-> "Active"]
         IN  Ok(save_project(got[2], project), project, <<>>)

register_project(s, creator, token, goal, proof_hash, deadline) ==
    IF ~require_can_register(s, creator) THEN Fail(s, ErrNotAuthorized)
    ELSE IF goal_invalid(goal) THEN Fail(s, ErrInvalidMilestones)
    ELSE IF deadline_invalid(deadline, s.timestamp) THEN Fail(s, ErrInvalidMilestones)
    ELSE LET got == get_and_increment_project_id(s)
             project == [id |-> got[1], creator |-> creator, token |-> token,
                         goal |-> goal, balance |-> 0, proof_hash |-> proof_hash,
                         deadline |-> deadline, status |-> "Funding"]
         IN  Ok(save_project(got[2], project), project, <<>>)

get_project(s, id) ==
    IF ~has_project_config(s, id) \/ ~has_project_state(s, id)
    THEN Fail(s, PanicProjectNotFound)
    ELSE Ok(s, load_project(s, id), <<>>)

\* Mutants of new_balance: the amount replaces the balance; the amount is
\* subtracted.
new_balance_overwrite(balance, amount) == amount
new_balance_sub(balance, amount) == balance - amount

new_balance(balance, amount) == balance + amount

\* overflow_checks: whether the build traps on integer overflow (it panics)
\* or not (the sum wraps in two's complement).
add_i128(sum, overflow_checks) ==
    IF sum <= MaxI128 /\ sum >= -(MaxI128 + 1) THEN [panic |-> FALSE, value |-> sum]
    ELSE IF overflow_checks THEN [panic |-> TRUE, value |-> 0]
    ELSE [panic |-> FALSE,
          value |-> ((sum + MaxI128 + 1) % (2 * (MaxI128 + 1))) - (MaxI128 + 1)]

deposit_event(project_id, donator, amount) ==
    [topics |-> <<"donation_received", project_id>>, data |-> <<donator, amount>>]

deposit(s, project_id, donator, amount, overflow_checks) ==
    IF ~has_project_config(s, project_id) \/ ~has_project_state(s, project_id)
    THEN Fail(s, PanicProjectNotFound)
    ELSE LET config == load_project_config(s, project_id)
             state == load_project_state(s, project_id)
             sum == add_i128(new_balance(state.balance, amount), overflow_checks)
         IN  IF ~token_transfer_ok(s.tokenBalance, config.token, donator,
                                   ContractAddress, amount)
             THEN Fail(s, TransferFailed)
             ELSE IF sum.panic THEN Fail(s, PanicOverflow)
             ELSE Ok(save_project_state(
                        [s EXCEPT !.tokenBalance =
                            token_transfer(s.tokenBalance, config.token, donator,
                                           ContractAddress, amount)],
                        project_id, [state EXCEPT !.balance = sum.value]),
                     <<>>, <<deposit_event(project_id, donator, amount)>>)

\* Mutant of set_oracle: the addresses that held Oracle before lose it.
set_oracle_single(s, caller, oracle) ==
    IF ~require_admin_or_above(s, caller) THEN Fail(s, ErrNotAuthorized)
    ELSE rbac_grant_role(
             [s EXCEPT !.roles = [a \in Address |->
                                     IF s.roles[a] = "Oracle" THEN NoRole
                                     ELSE s.roles[a]]],
             caller, oracle, "Oracle")

set_oracle(s, caller, oracle) ==
    IF ~require_admin_or_above(s, caller) THEN Fail(s, ErrNotAuthorized)
    ELSE rbac_grant_role(s, caller, oracle, "Oracle")

\* Mutant of verifiable: the Expired arm of the match is missing.
verifiable_any(status) == TRUE

\* Mutant of verifiable: an Expired project is let through to the comparison.
verifiable_expired_too(status) == status \in {"Funding", "Active", "Expired"}

verifiable(status) == status \in {"Funding", "Active"}

\* Mutant of proof_matches: the comparison is dropped.
proof_matches_any(submitted_proof_hash, stored_proof_hash) == TRUE

proof_matches(submitted_proof_hash, stored_proof_hash) ==
    submitted_proof_hash = stored_proof_hash

verified_event(project_id) == [topics |-> <<"verified">>, data |-> project_id]

\* Mutant of verify_and_release: the rbac gate on the oracle is missing.
verify_and_release_no_role_check(s, project_id, submitted_proof_hash, signer) ==
    LET oracle == get_oracle(s) IN
    IF oracle = NoAddress THEN Fail(s, PanicOracleNotSet)
    ELSE IF signer # oracle THEN Fail(s, AuthFailed)
    ELSE IF ~has_project_config(s, project_id) \/ ~has_project_state(s, project_id)
    THEN Fail(s, PanicProjectNotFound)
    ELSE LET config == load_project_config(s, project_id)
             state == load_project_state(s, project_id)
         IN  IF state.status = "Completed" THEN Fail(s, ErrMilestoneAlreadyReleased)
             ELSE IF ~verifiable(state.status) THEN Fail(s, ErrProjectNotFound)
             ELSE IF ~proof_matches(submitted_proof_hash, config.proof_hash)
             THEN Fail(s, PanicHashMismatch)
             ELSE Ok(save_project_state(s, project_id,
                                        [state EXCEPT !.status = "Completed"]),
                     <<>>, <<verified_event(project_id)>>)

\* Mutant of verify_and_release: a Completed project passes the status match
\* like a Funding one.
verify_and_release_repeatable(s, project_id, submitted_proof_hash, signer) ==
    LET oracle == get_oracle(s) IN
    IF oracle = NoAddress THEN Fail(s, PanicOracleNotSet)
    ELSE IF signer # oracle THEN Fail(s, AuthFailed)
    ELSE IF ~require_oracle(s, oracle) THEN Fail(s, ErrNotAuthorized)
    ELSE IF ~has_project_config(s, project_id) \/ ~has_project_state(s, project_id)
    THEN Fail(s, PanicProjectNotFound)
    ELSE LET config == load_project_config(s, project_id)
             state == load_project_state(s, project_id)
         IN  IF state.status # "Completed" /\ ~verifiable(state.status)
             THEN Fail(s, ErrProjectNotFound)
             ELSE IF ~proof_matches(submitted_proof_hash, config.proof_hash)
             THEN Fail(s, PanicHashMismatch)
             ELSE Ok(save_project_state(s, project_id,
                                        [state EXCEPT !.status = "Completed"]),
                     <<>>, <<verified_event(project_id)>>)

\* signer: the address whose authorisation the invocation carries.
verify_and_release(s, project_id, submitted_proof_hash, signer) ==
    LET oracle == get_oracle(s) IN
    IF oracle = NoAddress THEN Fail(s, PanicOracleNotSet)
    ELSE IF signer # oracle THEN Fail(s, AuthFailed)
    ELSE IF ~require_oracle(s, oracle) THEN Fail(s, ErrNotAuthorized)
    ELSE IF ~has_project_config(s, project_id) \/ ~has_project_state(s, project_id)
    THEN Fail(s, PanicProjectNotFound)
    ELSE LET config == load_project_config(s, project_id)
             state == load_project_state(s, project_id)
         IN  IF state.status = "Completed" THEN Fail(s, ErrMilestoneAlreadyReleased)
             ELSE IF ~verifiable(state.status) THEN Fail(s, ErrProjectNotFound)
             ELSE IF ~proof_matches(submitted_proof_hash, config.proof_hash)
             THEN Fail(s, PanicHashMismatch)
             ELSE Ok(save_project_state(s, project_id,
                                        [state EXCEPT !.status = "Completed"]),
                     <<>>, <<verified_event(project_id)>>)

\* ------------------------------------------- storage.rs: entry lifetimes

DAY_IN_LEDGERS == 17280
PERSISTENT_BUMP_AMOUNT == 30 * DAY_IN_LEDGERS
PERSISTENT_LIFETIME_THRESHOLD == 7 * DAY_IN_LEDGERS

ConfigKey(id) == <<"ProjConfig", id>>
StateKey(id) == <<"ProjState", id>>

\* lu maps the keys of the persistent entries to the last ledger they are
\* live in; seq is the current ledger.
remaining(lu, seq, key) == lu[key] - seq

\* storage().persistent().set: a new entry gets the lifetime new_ttl the
\* network gives new entries, an existing entry keeps its lifetime.
persistent_set(lu, seq, key, new_ttl) ==
    IF key \in DOMAIN lu THEN lu ELSE (key :> (seq + new_ttl)) @@ lu

\* storage().persistent().extend_ttl of the host: an entry whose remaining
\* lifetime is below threshold gets the remaining lifetime extend_to, and no
\* entry's lifetime is shortened.  at_threshold: whether the host also
\* extends an entry whose remaining lifetime equals threshold.
extend_ttl(lu, seq, key, threshold, extend_to, at_threshold) ==
    IF /\ \/ remaining(lu, seq, key) < threshold
          \/ remaining(lu, seq, key) = threshold /\ at_threshold
       /\ seq + extend_to > lu[key]
    THEN [lu EXCEPT ![key] = seq + extend_to]
    ELSE lu

\* Mutant of bump_persistent: the lifetime is set whatever remains.
bump_persistent_always(lu, seq, key, at_threshold) ==
    [lu EXCEPT ![key] = seq + PERSISTENT_BUMP_AMOUNT]

bump_persistent(lu, seq, key, at_threshold) ==
    extend_ttl(lu, seq, key, PERSISTENT_LIFETIME_THRESHOLD, PERSISTENT_BUMP_AMOUNT,
               at_threshold)

\* The lifetimes after the storage helpers, which extend what they touch.
save_project_ttl(lu, seq, id, new_ttl, at_threshold) ==
    LET set1 == persistent_set(lu, seq, ConfigKey(id), new_ttl)
        set2 == persistent_set(set1, seq, StateKey(id), new_ttl)
        bump1 == bump_persistent(set2, seq, ConfigKey(id), at_threshold)
    IN  bump_persistent(bump1, seq, StateKey(id), at_threshold)

load_project_config_ttl(lu, seq, id, at_threshold) ==
    bump_persistent(lu, seq, ConfigKey(id), at_threshold)

load_project_state_ttl(lu, seq, id, at_threshold) ==
    bump_persistent(lu, seq, StateKey(id), at_threshold)

load_project_ttl(lu, seq, id, at_threshold) ==
    load_project_state_ttl(load_project_config_ttl(lu, seq, id, at_threshold),
                           seq, id, at_threshold)

save_project_state_ttl(lu, seq, id, at_threshold) ==
    bump_persistent(persistent_set(lu, seq, StateKey(id), 0), seq, StateKey(id),
                    at_threshold)

\* The lifetimes after an entry point whose outcome is r.  The host rolls a
\* failed invocation back, lifetime extensions included.
register_project_ttl(lu, seq, r, new_ttl, at_threshold) ==
    IF r.err = "Ok" THEN save_project_ttl(lu, seq, r.ret.id, new_ttl, at_threshold)
    ELSE lu

get_project_ttl(lu, seq, r, id, at_threshold) ==
    IF r.err = "Ok" THEN load_project_ttl(lu, seq, id, at_threshold) ELSE lu

deposit_ttl(lu, seq, r, project_id, at_threshold) ==
    IF r.err = "Ok"
    THEN save_project_state_ttl(load_project_ttl(lu, seq, project_id, at_threshold),
                                seq, project_id, at_threshold)
    ELSE lu

verify_and_release_ttl(lu, seq, r, project_id, at_threshold) ==
    IF r.err = "Ok"
    THEN save_project_state_ttl(load_project_ttl(lu, seq, project_id, at_threshold),
                                seq, project_id, at_threshold)
    ELSE lu

\* --------------------------------------------- backend/indexer: events.rs

\* Option<T>: None, or Some(x).
None == <<>>
Some(x) == <<x>>

from_topic(topic) ==
    CASE topic = "created" -> "ProjectCreated"
      [] topic = "funded" -> "ProjectFunded"
      [] topic = "verified" -> "ProjectVerified"
      [] topic = "released" -> "FundsReleased"
      [] topic = "role_set" -> "RoleSet"
      [] topic = "role_del" -> "RoleDel"
      [] topic = "paused" -> "ProtocolPaused"
      [] topic = "unpaused" -> "ProtocolUnpaused"
      [] OTHER -> "Unknown"

as_str(kind) ==
    CASE kind = "ProjectCreated" -> "project_created"
      [] kind = "ProjectFunded" -> "project_funded"
      [] kind = "ProjectVerified" -> "project_verified"
      [] kind = "FundsReleased" -> "funds_released"
      [] kind = "RoleSet" -> "role_set"
      [] kind = "RoleDel" -> "role_del"
      [] kind = "ProtocolPaused" -> "protocol_paused"
      [] kind = "ProtocolUnpaused" -> "protocol_unpaused"
      [] OTHER -> "unknown"

\* ------------------------------------------------ backend/indexer: rpc.rs

\* n.to_string() of an integer: its decimal digits.
Digits == <<"0", "1", "2", "3", "4", "5", "6", "7", "8", "9">>
RECURSIVE to_string(_)
to_string(n) ==
    IF n < 0 THEN "-" \o to_string(-n)
    ELSE IF n < 10 THEN Digits[n + 1]
    ELSE to_string(n \div 10) \o Digits[(n % 10) + 1]

\* A topic entry of a RawEvent is a string.  form "raw": the string is the
\* bare text `value`.  form "json": the string is the JSON object
\* {"type": type, "value": value}, value a number when type is "u64" and a
\* string otherwise.
RawTopic(text) == [form |-> "raw", type |-> "", value |-> text]
JsonSymbol(name) == [form |-> "json", type |-> "symbol", value |-> name]
JsonU64(n) == [form |-> "json", type |-> "u64", value |-> n]

\* The characters of a topic entry.
topic_text(raw) ==
    IF raw.form = "raw" THEN raw.value
    ELSE "{\"type\":\"" \o raw.type \o "\",\"value\":"
         \o (IF raw.type = "u64" THEN to_string(raw.value)
             ELSE "\"" \o raw.value \o "\"")
         \o "}"

extract_symbol(raw) ==
    IF raw.form = "json" /\ raw.type # "u64" THEN raw.value
    ELSE topic_text(raw)

extract_u64_or_raw(raw) ==
    IF raw.form = "json" /\ raw.type = "u64" THEN to_string(raw.value)
    ELSE IF raw.form = "json" THEN raw.value
    ELSE topic_text(raw)

\* ledger_closed_at is a string: rfc3339 says whether it parses as an
\* RFC 3339 time, seconds is the time it then denotes.
parse_iso_to_unix(s) == IF s.rfc3339 THEN Some(s.seconds) ELSE None

\* The JSON `value` of a RawEvent: kind "object" with `fields`, a set of
\* <<key, text>> pairs (one per key), or any other kind, with no fields.
JsonObject(fields) == [kind |-> "object", fields |-> fields]
JsonOther(kind) == [kind |-> kind, fields |-> {}]

\* value.get(key): Option of the text under key.
json_get(value, key) ==
    IF value.kind = "object" /\ \E f \in value.fields : f[1] = key
    THEN Some((CHOOSE f \in value.fields : f[1] = key)[2])
    ELSE None

RECURSIVE extract_field(_, _)
extract_field(value, keys) ==
    IF keys = <<>> THEN None
    ELSE IF json_get(value, Head(keys)) # None THEN json_get(value, Head(keys))
    ELSE extract_field(value, Tail(keys))

\* <<actor, amount>>.  The kinds the contract never publishes (roles, pause,
\* release, creation) read their fields the same way as ProjectFunded does.
decode_data(value, kind) ==
    CASE kind = "ProjectCreated" ->
            <<extract_field(value, <<"creator", "address">>),
              extract_field(value, <<"goal">>)>>
      [] kind = "ProjectFunded" ->
            <<extract_field(value, <<"donator", "funder", "address">>),
              extract_field(value, <<"amount">>)>>
      [] kind = "ProjectVerified" ->
            <<extract_field(value, <<"oracle", "verifier", "address">>), None>>
      [] kind = "FundsReleased" ->
            <<None, extract_field(value, <<"amount">>)>>
      [] kind \in {"RoleSet", "RoleDel"} ->
            <<extract_field(value, <<"address", "caller", "by">>), None>>
      [] kind \in {"ProtocolPaused", "ProtocolUnpaused"} ->
            <<extract_field(value, <<"address">>), None>>
      [] OTHER -> <<None, None>>

unwrap_or(option, default) == IF option = None THEN default ELSE option[1]

\* Option<PifpEvent>.
decode_single(raw, contract_id) ==
    IF raw.topic = <<>> THEN None
    ELSE LET kind == from_topic(extract_symbol(raw.topic[1]))
             closed_at == IF raw.ledger_closed_at = None THEN None
                          ELSE parse_iso_to_unix(raw.ledger_closed_at[1])
             data == decode_data(raw.value, kind)
         IN  Some([event_type |-> as_str(kind),
                   project_id |-> IF Len(raw.topic) >= 2
                                  THEN Some(extract_u64_or_raw(raw.topic[2]))
                                  ELSE None,
                   actor |-> data[1],
                   amount |-> data[2],
                   ledger |-> unwrap_or(raw.ledger, 0),
                   timestamp |-> unwrap_or(closed_at, 0),
                   contract_id |-> unwrap_or(raw.contract_id, contract_id),
                   tx_hash |-> raw.tx_hash])

RECURSIVE decode_events(_, _)
decode_events(raw, contract_id) ==
    IF raw = <<>> THEN <<>>
    ELSE decode_single(Head(raw), contract_id) \o decode_events(Tail(raw), contract_id)

\* The RawEvent the RPC node delivers for a notification the contract
\* published in ledger `ledger` by transaction `tx_hash`: the first topic is
\* the symbol, the second (when there is one) the project id; `form` is the
\* shape the node gives the topic strings.
TopicForms == {"json", "raw"}
raw_topic(topics, form) ==
    [i \in DOMAIN topics |->
        IF i = 1 THEN (IF form = "json" THEN JsonSymbol(topics[i])
                       ELSE RawTopic(topics[i]))
        ELSE (IF form = "json" THEN JsonU64(topics[i])
              ELSE RawTopic(to_string(topics[i])))]
raw_event(event, form, ledger, tx_hash) ==
    [topic |-> raw_topic(event.topics, form),
     value |-> IF Len(event.topics) >= 2 THEN JsonOther("array")
               ELSE JsonOther("number"),
     contract_id |-> Some(ContractAddress),
     tx_hash |-> Some(tx_hash),
     ledger |-> Some(ledger),
     ledger_closed_at |-> None]

\* ------------------------------------------------- backend/indexer: db.rs

\* The unique key of table `events`.  The table is created by the migrations,
\* which are not among the sources; the key is the tuple the specification
\* and the doc comment of insert_events name.
event_key(ev) == <<ev.ledger, ev.tx_hash, ev.event_type, ev.project_id>>
conflicts(table, ev) == \E i \in DOMAIN table : event_key(table[i]) = event_key(ev)

\* Mutant of insert_or_ignore: a plain INSERT.
insert_always(table, ev) == [table |-> Append(table, ev), rows_affected |-> 1]

\* INSERT OR IGNORE of one event.
insert_or_ignore(table, ev) ==
    IF conflicts(table, ev) THEN [table |-> table, rows_affected |-> 0]
    ELSE [table |-> Append(table, ev), rows_affected |-> 1]

\* The loop of insert_events with `count` rows inserted so far.
RECURSIVE insert_events_from(_, _, _)
insert_events_from(table, events, count) ==
    IF events = <<>> THEN [table |-> table, count |-> count]
    ELSE LET done == insert_or_ignore(table, Head(events))
         IN  insert_events_from(done.table, Tail(events), count + done.rows_affected)

\* fail_at: which execute of the loop ends with a database error (0: none).
\* Every execute commits on its own, so the rows inserted before the failing
\* one stay in the table.
insert_events(table, events, fail_at) ==
    IF fail_at \in 1..Len(events)
    THEN [err |-> TRUE, count |-> 0,
          table |-> insert_events_from(table, SubSeq(events, 1, fail_at - 1), 0).table]
    ELSE [err |-> FALSE, count |-> insert_events_from(table, events, 0).count,
          table |-> insert_events_from(table, events, 0).table]

\* UPDATE indexer_cursor ... WHERE id = 1.
save_cursor(row, last_ledger, last_cursor) ==
    [row EXCEPT !.last_ledger = last_ledger, !.last_cursor = last_cursor]

get_last_ledger(row) == row.last_ledger
get_cursor_string(row) == row.last_cursor

\* --------------------------------------------- backend/indexer: indexer.rs

config_start_ledger == 1
config_contract_id == ContractAddress

max(a, b) == IF a >= b THEN a ELSE b

\* One poll on the database <<table, row>>.  fetched is what fetch_events
\* ends with: an error, or a page of raw events with the next cursor and the
\* latest ledger.  insert_fail_at and save_fails are the database errors met.
\* The outcome holds the database afterwards and, when err is FALSE, the
\* returned pair <<next_ledger, next_cursor>>.
poll_once(table, row, start_ledger, fetched, insert_fail_at, save_fails) ==
    IF fetched.err
    THEN [err |-> TRUE, table |-> table, row |-> row, ret |-> <<>>]
    ELSE LET decoded == decode_events(fetched.events, config_contract_id)
             stored == IF fetched.events # <<>>
                       THEN insert_events(table, decoded, insert_fail_at)
                       ELSE [err |-> FALSE, count |-> 0, table |-> table]
             next_ledger == IF fetched.latest_ledger = None THEN start_ledger
                            ELSE max(fetched.latest_ledger[1], start_ledger)
         IN  IF stored.err
             THEN [err |-> TRUE, table |-> stored.table, row |-> row, ret |-> <<>>]
             ELSE IF save_fails
             THEN [err |-> TRUE, table |-> stored.table, row |-> row, ret |-> <<>>]
             ELSE [err |-> FALSE, table |-> stored.table,
                   row |-> save_cursor(row, next_ledger, fetched.cursor),
                   ret |-> <<next_ledger, fetched.cursor>>]

\* ----------------------------------------------------------------- actions

Init ==
    /\ initialized = FALSE
    /\ roles = [a \in Address |-> NoRole]
    /\ ProjectCount = 0
    /\ OracleKey = NoAddress
    /\ ProjConfig = <<>>
    /\ ProjState = <<>>
    /\ tokenBalance = [t \in Tokens |->
                          [h \in Holders |-> IF h = ContractAddress THEN 0
                                             ELSE InitialMint]]
    /\ timestamp = 0
    /\ returned_ids = <<>>
    /\ ledger_seq = 0
    /\ live_until = <<>>
    /\ db_events = <<>>
    /\ cursor_row = [last_ledger |-> 0, last_cursor |-> None]
    /\ running = FALSE
    /\ current_ledger = 0
    /\ cursor = None
    /\ fetch_pc = "idle"
    /\ backoff = 0
    /\ slept = <<>>
    /\ fetch_ret = None

\* The storage after a call is the outcome's st.
Apply(r) ==
    /\ initialized' = r.st.initialized
    /\ roles' = r.st.roles
    /\ ProjectCount' = r.st.ProjectCount
    /\ OracleKey' = r.st.OracleKey
    /\ ProjConfig' = r.st.ProjConfig
    /\ ProjState' = r.st.ProjState
    /\ tokenBalance' = r.st.tokenBalance
    /\ timestamp' = r.st.timestamp

InitCall ==
    \E super_admin \in Address :
        /\ Apply(init(Cur, super_admin))
        /\ UNCHANGED <<returned_ids, lifetimes, indexer, fetcher>>

GrantRole ==
    \E caller \in Address, target \in Address, role \in Role :
        /\ Apply(grant_role(Cur, caller, target, role))
        /\ UNCHANGED <<returned_ids, lifetimes, indexer, fetcher>>

RevokeRole ==
    \E caller \in Address, target \in Address :
        /\ Apply(revoke_role(Cur, caller, target))
        /\ UNCHANGED <<returned_ids, lifetimes, indexer, fetcher>>

TransferSuperAdmin ==
    \E current \in Address, new \in Address :
        /\ Apply(transfer_super_admin(Cur, current, new))
        /\ UNCHANGED <<returned_ids, lifetimes, indexer, fetcher>>

RegisterProject ==
    \E creator \in Address, token \in Tokens, goal \in GoalInputs,
       proof_hash \in Hashes, deadline \in DeadlineInputs :
        /\ ProjectCount < MaxProjects
        /\ LET r == register_project(Cur, creator, token, goal, proof_hash, deadline)
           IN  /\ Apply(r)
               /\ returned_ids' = IF r.err = "Ok" THEN Append(returned_ids, r.ret.id)
                                  ELSE returned_ids
               /\ UNCHANGED <<lifetimes, indexer, fetcher>>

Deposit ==
    \E project_id \in 0..MaxProjects, donator \in Address, amount \in AmountInputs,
       overflow_checks \in BOOLEAN :
        /\ Apply(deposit(Cur, project_id, donator, amount, overflow_checks))
        /\ UNCHANGED <<returned_ids, lifetimes, indexer, fetcher>>

SetOracle ==
    \E caller \in Address, oracle \in Address :
        /\ Apply(set_oracle(Cur, caller, oracle))
        /\ UNCHANGED <<returned_ids, lifetimes, indexer, fetcher>>

VerifyAndRelease ==
    \E project_id \in 0..MaxProjects, submitted_proof_hash \in Hashes,
       signer \in Address :
        /\ Apply(verify_and_release(Cur, project_id, submitted_proof_hash, signer))
        /\ UNCHANGED <<returned_ids, lifetimes, indexer, fetcher>>

\* Mutant of AdvanceTime: a project whose deadline is reached becomes Expired.
AdvanceTimeExpiring ==
    /\ timestamp < MaxTime
    /\ timestamp' = timestamp + 1
    /\ ProjState' = [id \in DOMAIN ProjState |->
                        IF ProjConfig[id].deadline <= timestamp + 1
                        THEN [ProjState[id] EXCEPT !.status = "Expired"]
                        ELSE ProjState[id]]
    /\ UNCHANGED <<initialized, roles, ProjectCount, OracleKey, ProjConfig,
                   tokenBalance, returned_ids, lifetimes, indexer, fetcher>>

AdvanceTime ==
    /\ timestamp < MaxTime
    /\ timestamp' = timestamp + 1
    /\ UNCHANGED <<initialized, roles, ProjectCount, OracleKey, ProjConfig,
                   ProjState, tokenBalance, returned_ids, lifetimes, indexer, fetcher>>

Next ==
    \/ InitCall
    \/ GrantRole
    \/ RevokeRole
    \/ TransferSuperAdmin
    \/ RegisterProject
    \/ Deposit
    \/ SetOracle
    \/ VerifyAndRelease
    \/ AdvanceTime

Spec == Init /\ [][Next]_vars

\* ----------------------------------------------------- the indexer process

MaxRows == 2          \* no poll is made that leaves more rows in `events`
MaxBatch == 2         \* raw events per page of a getEvents response
MaxLedger == 2        \* ledgers seen by the indexer: 0..MaxLedger

\* The raw events a getEvents response may carry.
IndexerTopics == {<<JsonSymbol("funded"), JsonU64(0)>>, <<JsonSymbol("verified")>>}
IndexerValues ==
    {JsonObject({<<"donator", a>>, <<"amount", to_string(MaxAmount)>>}) : a \in Address}
RawEvents ==
    {[topic |-> topic, value |-> value, contract_id |-> None, tx_hash |-> tx_hash,
      ledger |-> Some(l), ledger_closed_at |-> None] :
        topic \in IndexerTopics, value \in IndexerValues,
        tx_hash \in {Some("tx1")}, l \in 1..MaxLedger}
    \cup {[topic |-> <<>>, value |-> JsonOther("null"), contract_id |-> None,
           tx_hash |-> None, ledger |-> None, ledger_closed_at |-> None]}
Pages == UNION {[1..n -> RawEvents] : n \in 0..MaxBatch}
Cursors == {None, Some("c1")}
LatestLedgers == {None} \cup {Some(l) : l \in 0..MaxLedger}
\* What fetch_events returns on success.
Fetched(page, next_cursor, latest_ledger) ==
    [err |-> FALSE, events |-> page, cursor |-> next_cursor,
     latest_ledger |-> latest_ledger]
FetchError == [err |-> TRUE, events |-> <<>>, cursor |-> None, latest_ledger |-> None]

\* run, before the loop: the cursor is loaded from the database; a read that
\* fails counts as ledger 0 and as no cursor.
Run ==
    \E ledger_read_fails \in BOOLEAN, cursor_read_fails \in BOOLEAN :
        LET last_ledger == IF ledger_read_fails THEN 0 ELSE get_last_ledger(cursor_row)
            cursor_str == IF cursor_read_fails THEN None
                          ELSE get_cursor_string(cursor_row)
        IN  /\ ~running
            /\ running' = TRUE
            /\ current_ledger' = IF last_ledger > 0 THEN last_ledger
                                 ELSE config_start_ledger
            /\ cursor' = cursor_str
            /\ UNCHANGED <<contract, lifetimes, fetcher, db_events, cursor_row>>

\* The outcome of one iteration of the loop of run is applied to the
\* database and to the locals.
ApplyPoll(r) ==
    /\ Len(r.table) <= MaxRows
    /\ db_events' = r.table
    /\ cursor_row' = r.row
    /\ current_ledger' = IF r.err THEN current_ledger ELSE r.ret[1]
    /\ cursor' = IF r.err THEN cursor ELSE r.ret[2]
    /\ UNCHANGED <<contract, lifetimes, fetcher, running>>

\* One iteration of the loop of run whose fetch_events returns a page.
PollOnce ==
    \E page \in Pages, next_cursor \in Cursors, latest_ledger \in LatestLedgers,
       insert_fail_at \in 0..MaxBatch, save_fails \in BOOLEAN :
        /\ running
        /\ insert_fail_at = 0 \/ ~save_fails   \* save_cursor is reached or not
        /\ ApplyPoll(poll_once(db_events, cursor_row, current_ledger,
                               [err |-> FALSE, events |-> page, cursor |-> next_cursor,
                                latest_ledger |-> latest_ledger],
                               insert_fail_at, save_fails))

\* One iteration of the loop of run whose fetch_events ends with an error.
PollFetchError ==
    /\ running
    /\ ApplyPoll(poll_once(db_events, cursor_row, current_ledger, FetchError, 0, FALSE))

\* The process ends (it is killed or the host goes down); the database stays.
Stop ==
    /\ running
    /\ running' = FALSE
    /\ current_ledger' = 0
    /\ cursor' = None
    /\ UNCHANGED <<contract, lifetimes, fetcher, db_events, cursor_row>>

NextIndexer ==
    \/ Run
    \/ PollOnce
    \/ PollFetchError
    \/ Stop

SpecIndexer == Init /\ [][NextIndexer]_vars

\* ------------------------------------------- the retry loop of fetch_events

MAX_BACKOFF_SECS == 60
INITIAL_BACKOFF_SECS == 2
MaxRetries == 7       \* no call of fetch_events sleeps more often than this

min(a, b) == IF a < b THEN a ELSE b

\* The statement `backoff = (backoff * 2).min(MAX_BACKOFF_SECS)`.
next_backoff_uncapped(b) == b * 2
next_backoff(b) == min(b * 2, MAX_BACKOFF_SECS)

\* What one POST of the getEvents request can come back as: the request fails
\* (send_ok is FALSE), or a response arrives with an HTTP status and a body
\* that is JSON of the shape RpcResponse or is not (json_ok), with the fields
\* `error` (its code) and `result` present or absent.
HttpStatuses == {200, 429}
ErrorCodes == {-32600, -32601, -32602, -32000}
RpcResults ==
    {[events |-> page, cursor |-> c, latest_ledger |-> l] :
        page \in Pages, c \in Cursors, l \in LatestLedgers}
Responses ==
    [send_ok : BOOLEAN, status : HttpStatuses, json_ok : BOOLEAN,
     error : {None} \cup {Some(code) : code \in ErrorCodes},
     result : {None} \cup {Some(r) : r \in RpcResults}]

\* The params of the getEvents request: with a cursor the request carries the
\* cursor and no startLedger, without one it carries the startLedger.
build_params(contract_id, start_ledger, cursor_arg, limit) ==
    [contractIds |-> <<contract_id>>, limit |-> limit, cursor |-> cursor_arg,
     startLedger |-> IF cursor_arg # None THEN None ELSE Some(start_ledger)]

\* One pass through the loop of fetch_events with the local backoff `b`:
\* either the loop sleeps `sleep` seconds and goes round again with the new
\* backoff, or fetch_events returns `ret`.
Retry(b) ==
    [retry |-> TRUE, sleep |-> b, backoff |-> next_backoff(b), ret |-> FetchError]
Return(b, ret) ==
    [retry |-> FALSE, sleep |-> 0, backoff |-> b, ret |-> ret]
fetch_attempt(b, response) ==
    IF ~response.send_ok THEN Retry(b)
    ELSE IF response.status = 429 THEN Retry(b)
    ELSE IF ~response.json_ok THEN Return(b, FetchError)
    ELSE IF response.error # None
         THEN IF response.error[1] = -32600 \/ response.error[1] = -32601
              THEN Return(b, FetchError)
              ELSE Retry(b)
    ELSE IF response.result = None THEN Return(b, FetchError)
    ELSE Return(b, Fetched(response.result[1].events, response.result[1].cursor,
                           response.result[1].latest_ledger))

\* fetch_events is called.
FetchEvents ==
    /\ fetch_pc # "loop"
    /\ fetch_pc' = "loop"
    /\ backoff' = INITIAL_BACKOFF_SECS
    /\ slept' = <<>>
    /\ fetch_ret' = None
    /\ UNCHANGED <<contract, lifetimes, indexer>>

\* The request is sent and the response is handled.
FetchAttempt ==
    \E response \in Responses :
        LET a == fetch_attempt(backoff, response)
        IN  /\ fetch_pc = "loop"
            /\ a.retry => Len(slept) < MaxRetries
            /\ fetch_pc' = IF a.retry THEN "loop"
                           ELSE IF a.ret.err THEN "err" ELSE "ok"
            /\ backoff' = a.backoff
            /\ slept' = IF a.retry THEN Append(slept, a.sleep) ELSE slept
            /\ fetch_ret' = IF a.retry THEN None ELSE Some(a.ret)
            /\ UNCHANGED <<contract, lifetimes, indexer>>

NextFetch ==
    \/ FetchEvents
    \/ FetchAttempt

SpecFetch == Init /\ [][NextFetch]_vars

\* ------------------------------------------- the contract with lifetimes

MaxLedgerDays == 24   \* the ledger sequence stays within this many days

\* Ledgers that pass between two invocations: 11 or 12 days, so that an entry
\* extended at ledger 0 is met 22, 23 and 24 days later, which is above, at
\* and below the threshold.
LedgerGaps == {11 * DAY_IN_LEDGERS, 12 * DAY_IN_LEDGERS}

\* Lifetimes the network gives a new persistent entry: shorter than the
\* threshold, longer than the extension.
NewEntryTtls == {DAY_IN_LEDGERS, 4 * PERSISTENT_BUMP_AMOUNT}

TtlAdmin == "a1"      \* the one address that initialises, registers and donates
TtlHash == "h1"

InitTtl ==
    /\ Apply(init(Cur, TtlAdmin))
    /\ UNCHANGED <<returned_ids, lifetimes, indexer, fetcher>>

RegisterProjectTtl ==
    \E goal \in GoalInputs, new_ttl \in NewEntryTtls, at_threshold \in BOOLEAN :
        /\ ProjectCount < MaxProjects
        /\ LET r == register_project(Cur, TtlAdmin, "t1", goal, TtlHash, MaxTime)
           IN  /\ Apply(r)
               /\ returned_ids' = IF r.err = "Ok" THEN Append(returned_ids, r.ret.id)
                                  ELSE returned_ids
               /\ live_until' = register_project_ttl(live_until, ledger_seq, r,
                                                     new_ttl, at_threshold)
               /\ UNCHANGED <<ledger_seq, indexer, fetcher>>

GetProjectTtl ==
    \E id \in 0..MaxProjects, at_threshold \in BOOLEAN :
        LET r == get_project(Cur, id)
        IN  /\ Apply(r)
            /\ live_until' = get_project_ttl(live_until, ledger_seq, r, id, at_threshold)
            /\ UNCHANGED <<returned_ids, ledger_seq, indexer, fetcher>>

DepositTtl ==
    \E project_id \in 0..MaxProjects, amount \in AmountInputs,
       at_threshold \in BOOLEAN :
        LET r == deposit(Cur, project_id, TtlAdmin, amount, TRUE)
        IN  /\ Apply(r)
            /\ live_until' = deposit_ttl(live_until, ledger_seq, r, project_id,
                                         at_threshold)
            /\ UNCHANGED <<returned_ids, ledger_seq, indexer, fetcher>>

VerifyAndReleaseTtl ==
    \E project_id \in 0..MaxProjects, signer \in Address, at_threshold \in BOOLEAN :
        LET r == verify_and_release(Cur, project_id, TtlHash, signer)
        IN  /\ Apply(r)
            /\ live_until' = verify_and_release_ttl(live_until, ledger_seq, r,
                                                    project_id, at_threshold)
            /\ UNCHANGED <<returned_ids, ledger_seq, indexer, fetcher>>

AdvanceLedger ==
    \E gap \in LedgerGaps :
        /\ ledger_seq + gap <= MaxLedgerDays * DAY_IN_LEDGERS
        \* lifetimes are followed while every entry is live (none is archived)
        /\ \A key \in DOMAIN live_until : live_until[key] >= ledger_seq + gap
        /\ ledger_seq' = ledger_seq + gap
        /\ UNCHANGED <<contract, live_until, indexer, fetcher>>

NextTtl ==
    \/ InitTtl
    \/ RegisterProjectTtl
    \/ GetProjectTtl
    \/ DepositTtl
    \/ VerifyAndReleaseTtl
    \/ AdvanceLedger

SpecTtl == Init /\ [][NextTtl]_vars

\* ------------------------------------------------------------------ claims

Projects == DOMAIN ProjState
SuperAdmins == {a \in Address : roles[a] = "SuperAdmin"}
Admins == {a \in Address : require_admin_or_above(Cur, a)}

\* The storage s as it would be with address o stored under OracleKey and
\* holding the Oracle role, and with project id's State entry in `status`.
WithOracle(s, o) == [s EXCEPT !.OracleKey = o, !.roles[o] = "Oracle"]
WithStatus(s, id, status) == [s EXCEPT !.ProjState[id].status = status]

\* C1: the k-th successful register_project (counting from 0) returns a
\* project with id k, status Funding and balance 0, and nothing but a
\* successful register_project moves the id counter: in every state the
\* counter equals the number of successful registrations so far.
C1_SequentialIds ==
    /\ \A k \in 1..Len(returned_ids) : returned_ids[k] = k - 1
    /\ ProjectCount = Len(returned_ids)
    /\ \A creator \in Address, token \in Tokens, goal \in GoalInputs,
          proof_hash \in Hashes, deadline \in DeadlineInputs :
          LET r == register_project(Cur, creator, token, goal, proof_hash, deadline)
          IN  IF r.err = "Ok"
              THEN /\ r.ret.id = Len(returned_ids)
                   /\ r.ret.status = "Funding"
                   /\ r.ret.balance = 0
                   /\ r.st.ProjectCount = ProjectCount + 1
              ELSE r.st.ProjectCount = ProjectCount

\* Two projects were registered, with a failed registration possible between
\* them and a deposit made to the first.
C1_Witness ==
    /\ returned_ids = <<0, 1>>
    /\ ProjState[0].balance > 0
    /\ \E a \in Address : ~require_can_register(Cur, a)

\* invariants.rs, assert_valid_status_transition (INV-7).
ValidTransitions ==
    {<<"Funding", "Active">>, <<"Funding", "Completed">>, <<"Funding", "Expired">>,
     <<"Active", "Completed">>, <<"Active", "Expired">>}
Forward(from, to) == from = to \/ <<from, to>> \in ValidTransitions

\* C2: in every step each project's status stays the same or moves along
\* Funding->Active, Funding->Completed, Funding->Expired, Active->Completed
\* or Active->Expired (so Completed and Expired are never left); and
\* verify_and_release, the one entry point that writes a status, does the
\* same from each of the four statuses whichever address is the oracle.
C2_StatusStep ==
    \A id \in Projects : Forward(ProjState[id].status, ProjState'[id].status)
C2_VerifyForward ==
    \A o \in Address, id \in Projects, status \in ProjectStatus, h \in Hashes :
        LET s == WithStatus(WithOracle(Cur, o), id, status)
            r == verify_and_release(s, id, h, o)
        IN  \A j \in Projects :
                /\ j \in DOMAIN r.st.ProjState
                /\ Forward(s.ProjState[j].status, r.st.ProjState[j].status)
C2_ForwardOnly == [][C2_StatusStep]_vars /\ []C2_VerifyForward

\* A project that received a deposit while an address holds the Oracle role:
\* register_project, deposit and set_oracle have acted on it and around it.
C2_Witness ==
    \E id \in Projects, o \in Address :
        /\ ProjState[id].balance > 0
        /\ ProjState[id].status = "Funding"
        /\ roles[o] = "Oracle"

\* C3: a successful deposit(project_id, donator, a) leaves the project's
\* balance at exactly balance_before + a and every other project's balance
\* unchanged; when balance_before + a does not fit the balance's width the
\* deposit fails, whether or not the build traps on overflow.
C3_DepositExact ==
    \A project_id \in 0..MaxProjects, donator \in Address, a \in AmountInputs,
       overflow_checks \in BOOLEAN :
        LET r == deposit(Cur, project_id, donator, a, overflow_checks)
        IN  /\ r.err = "Ok" =>
                /\ project_id \in Projects
                /\ r.st.ProjState[project_id].balance
                       = ProjState[project_id].balance + a
                /\ \A j \in Projects \ {project_id} :
                       r.st.ProjState[j].balance = ProjState[j].balance
            /\ (project_id \in Projects /\ ProjState[project_id].balance + a > MaxI128)
                   => r.err # "Ok"

\* A deposit has raised a balance, and a further deposit that the donator can
\* pay would not fit.
C3_Witness ==
    \E project_id \in Projects, donator \in Address, a \in AmountInputs :
        /\ ProjState[project_id].balance > 0
        /\ a > 0
        /\ tokenBalance[ProjConfig[project_id].token][donator] >= a
        /\ ProjState[project_id].balance + a > MaxI128
        /\ deposit(Cur, project_id, donator, a, FALSE).err # "Ok"

ImmutableFields(project) ==
    <<project.id, project.creator, project.token, project.goal,
      project.proof_hash, project.deadline>>
C5_ConfigStep ==
    \A id \in DOMAIN ProjConfig :
        /\ id \in DOMAIN ProjConfig' /\ id \in DOMAIN ProjState'
        /\ ProjConfig'[id] = ProjConfig[id]
C5_GetProjectReadsConfig ==
    \A id \in DOMAIN ProjConfig :
        LET r == get_project(Cur, id)
        IN  /\ r.err = "Ok"
            /\ r.ret.id = id
            /\ ImmutableFields(r.ret) = ImmutableFields(ProjConfig[id])
C5_ConfigImmutable == [][C5_ConfigStep]_vars /\ []C5_GetProjectReadsConfig

\* Two projects with different creators and proof hashes, the first funded.
C5_Witness ==
    /\ Projects = {0, 1}
    /\ ProjConfig[0].creator # ProjConfig[1].creator
    /\ ProjConfig[0].proof_hash # ProjConfig[1].proof_hash
    /\ ProjState[0].balance > 0

\* C6: at most one address holds the SuperAdmin role in every reachable state.
C6_AtMostOneSuperAdmin == Cardinality(SuperAdmins) <= 1

\* C7: once init has succeeded, some address holds SuperAdmin in every
\* reachable state.
C7_SuperAdminExists == initialized => SuperAdmins # {}

\* C8: right after an Admin or SuperAdmin has successfully called
\* set_oracle(caller, O), verify_and_release(project_id, h) authorised by O,
\* on a project in Funding or Active status and with h the stored proof hash,
\* succeeds and leaves the project Completed.
C8_SetOracleEnablesVerify ==
    \A caller \in Admins, O \in Address :
        LET r1 == set_oracle(Cur, caller, O)
        IN  r1.err = "Ok" =>
                \A project_id \in Projects :
                    ProjState[project_id].status \in {"Funding", "Active"} =>
                        LET r2 == verify_and_release(r1.st, project_id,
                                      ProjConfig[project_id].proof_hash, O)
                        IN  /\ r2.err = "Ok"
                            /\ r2.st.ProjState[project_id].status = "Completed"

\* C9: test_funds_released_to_creator.  After set_oracle(caller, O), the
\* verify_and_release of a project by O with the stored proof hash leaves the
\* creator's asset balance grown by the project's balance and the contract's
\* asset balance smaller by it.
C9_FundsReleasedToCreator ==
    \A caller \in Admins, O \in Address :
        LET r1 == set_oracle(Cur, caller, O)
        IN  r1.err = "Ok" =>
                \A project_id \in Projects :
                    ProjState[project_id].status \in {"Funding", "Active"} =>
                        LET config == ProjConfig[project_id]
                            held == ProjState[project_id].balance
                            r2 == verify_and_release(r1.st, project_id,
                                      config.proof_hash, O)
                        IN  /\ r2.st.tokenBalance[config.token][config.creator]
                                  = tokenBalance[config.token][config.creator] + held
                            /\ r2.st.tokenBalance[config.token][ContractAddress]
                                  = tokenBalance[config.token][ContractAddress] - held

Aborted(r, s) == r.err # "Ok" /\ r.st = s /\ r.events = <<>>

\* C10: verify_and_release with a proof hash that differs from the stored one
\* fails, publishes nothing and leaves the storage (balances, statuses and
\* everything else) as it was; and it does so whichever address is stored as
\* the oracle and signs the call.
C10_MismatchAborts ==
    \A project_id \in Projects, h \in Hashes, signer \in Address :
        h # ProjConfig[project_id].proof_hash =>
            /\ Aborted(verify_and_release(Cur, project_id, h, signer), Cur)
            /\ LET s == WithOracle(Cur, signer)
               IN  Aborted(verify_and_release(s, project_id, h, s.OracleKey), s)

\* A funded project and an address holding the Oracle role: a call by that
\* address with the other hash aborts, and with that address stored as the
\* oracle the call gets as far as the hash comparison.
C10_Witness ==
    \E project_id \in Projects, h \in Hashes, o \in Address :
        /\ ProjState[project_id].balance > 0
        /\ roles[o] = "Oracle"
        /\ h # ProjConfig[project_id].proof_hash
        /\ verify_and_release(Cur, project_id, h, o).err # "Ok"
        /\ verify_and_release(WithOracle(Cur, o), project_id, h, o).err
               = PanicHashMismatch

ProjectIds == 0..MaxProjects

\* C11: verify_and_release by the stored oracle on a project whose status is
\* Completed fails with MilestoneAlreadyReleased, and on one whose status is
\* Expired with ProjectNotFound, whichever proof hash is submitted (the stored
\* one included), publishing nothing and leaving the storage as it was.
C11_TerminalStatusRejected ==
    \A o \in Address, id \in Projects, h \in Hashes :
        LET sc == WithStatus(WithOracle(Cur, o), id, "Completed")
            se == WithStatus(WithOracle(Cur, o), id, "Expired")
            rc == verify_and_release(sc, id, h, o)
            re == verify_and_release(se, id, h, o)
        IN  /\ rc.err = ErrMilestoneAlreadyReleased
            /\ rc.st = sc /\ rc.events = <<>>
            /\ re.err = ErrProjectNotFound
            /\ re.st = se /\ re.events = <<>>

\* A funded project and an address holding the Oracle role: with the project
\* Completed the call with a wrong hash, and with the project Expired the call
\* with the stored hash, end at the status check.
C11_Witness ==
    \E id \in Projects, o \in Address, h \in Hashes :
        /\ ProjState[id].balance > 0
        /\ roles[o] = "Oracle"
        /\ h # ProjConfig[id].proof_hash
        /\ verify_and_release(WithStatus(WithOracle(Cur, o), id, "Completed"),
                              id, h, o).err = ErrMilestoneAlreadyReleased
        /\ verify_and_release(WithStatus(WithOracle(Cur, o), id, "Expired"),
                              id, ProjConfig[id].proof_hash, o).err
               = ErrProjectNotFound

\* C12: deposit on a project id that was never registered fails with the
\* typed error ProjectNotFound, moves no asset and creates no State entry.
C12_DepositUnknownProject ==
    \A project_id \in ProjectIds \ DOMAIN ProjConfig, donator \in Address,
       a \in AmountInputs, overflow_checks \in BOOLEAN :
        LET r == deposit(Cur, project_id, donator, a, overflow_checks)
        IN  /\ r.err = ErrProjectNotFound
            /\ r.st.tokenBalance = tokenBalance
            /\ project_id \notin DOMAIN r.st.ProjState

\* What a failed call leaves: the storage it started from and no notification.
NoEffect(r) == r.err # "Ok" => (r.st = Cur /\ r.events = <<>>)

\* C13: every call that fails leaves the role assignments, the id counter,
\* every Config and State entry (and the asset ledgers) as they were and
\* publishes nothing; and a call does fail when the caller lacks the role, the
\* goal or deadline is invalid, the project is missing, the donator cannot pay
\* the amount or the amount is negative, or the proof hash differs.
C13_FailureLeavesState ==
    /\ \A a \in Address : NoEffect(init(Cur, a))
    /\ \A caller \in Address, target \in Address :
          /\ NoEffect(revoke_role(Cur, caller, target))
          /\ NoEffect(transfer_super_admin(Cur, caller, target))
          /\ NoEffect(set_oracle(Cur, caller, target))
          /\ ~require_admin_or_above(Cur, caller) =>
                 set_oracle(Cur, caller, target).err # "Ok"
          /\ \A role \in Role :
                 /\ NoEffect(grant_role(Cur, caller, target, role))
                 /\ ~require_admin_or_above(Cur, caller) =>
                        grant_role(Cur, caller, target, role).err # "Ok"
    /\ \A creator \in Address, token \in Tokens, goal \in GoalInputs,
          proof_hash \in Hashes, deadline \in DeadlineInputs :
          LET r == register_project(Cur, creator, token, goal, proof_hash, deadline)
          IN  /\ NoEffect(r)
              /\ (\/ ~require_can_register(Cur, creator)
                  \/ goal <= 0
                  \/ deadline <= timestamp) => r.err # "Ok"
    /\ \A project_id \in ProjectIds, donator \in Address, a \in AmountInputs,
          overflow_checks \in BOOLEAN :
          LET r == deposit(Cur, project_id, donator, a, overflow_checks)
          IN  /\ NoEffect(r)
              /\ project_id \notin Projects => r.err # "Ok"
              /\ (/\ project_id \in Projects
                  /\ \/ a < 0
                     \/ tokenBalance[ProjConfig[project_id].token][donator] < a)
                     => r.err # "Ok"
    /\ \A project_id \in ProjectIds, h \in Hashes, signer \in Address :
          LET r == verify_and_release(Cur, project_id, h, signer)
              s == WithOracle(Cur, signer)
              rs == verify_and_release(s, project_id, h, signer)
          IN  /\ NoEffect(r)
              /\ rs.err # "Ok" => (rs.st = s /\ rs.events = <<>>)
              /\ (\/ project_id \notin Projects
                  \/ h # ProjConfig[project_id].proof_hash)
                     => (r.err # "Ok" /\ rs.err # "Ok")

\* A funded project, a donator who has nothing left, and a caller without an
\* administrative role: a deposit, a registration and a grant fail here.
C13_Witness ==
    \E id \in Projects, donator \in Address, caller \in Address :
        /\ ProjState[id].balance > 0
        /\ tokenBalance[ProjConfig[id].token][donator] = 0
        /\ deposit(Cur, id, donator, 1, TRUE).err = TransferFailed
        /\ require_can_register(Cur, caller)
        /\ register_project(Cur, caller, ProjConfig[id].token, 0, "h1",
                            MaxTime).err = ErrInvalidMilestones
        /\ ~require_admin_or_above(Cur, caller)
        /\ grant_role(Cur, caller, donator, "Admin").err = ErrNotAuthorized

SuperAdminsOf(s) == {a \in Address : s.roles[a] = "SuperAdmin"}

\* C14: init succeeds exactly when the deployment has not been initialised
\* and then makes its argument the SuperAdmin, changing no other role; once
\* initialised the deployment stays initialised, and every further init, with
\* any address, fails with AlreadyInitialized and leaves the storage as it was.
C14_InitCalls ==
    \A super_admin \in Address :
        LET r == init(Cur, super_admin)
        IN  IF initialized
            THEN r.err = ErrAlreadyInitialized /\ r.st = Cur
            ELSE /\ r.err = "Ok"
                 /\ r.st.initialized
                 /\ r.st.roles = [roles EXCEPT ![super_admin] = "SuperAdmin"]
C14_StaysInitialized == initialized => initialized'
C14_InitOnce == [][C14_StaysInitialized]_vars /\ []C14_InitCalls

\* After init, roles have moved on: the address init made SuperAdmin is no
\* longer alone in holding a role, and init fails for it and for others.
C14_Witness ==
    \E a \in Address, b \in Address :
        /\ initialized
        /\ a # b
        /\ roles[a] = "SuperAdmin"
        /\ roles[b] = "Admin"
        /\ init(Cur, a).err = ErrAlreadyInitialized
        /\ init(Cur, b).err = ErrAlreadyInitialized

\* C15: grant_role succeeds only for a caller holding SuperAdmin or Admin,
\* and a grant of SuperAdmin only for a caller holding SuperAdmin; any other
\* caller fails with NotAuthorized, an Admin granting SuperAdmin fails, and
\* once the deployment is initialised no call of any entry point by a caller
\* who is not SuperAdmin adds an address to the SuperAdmins.
C15_GrantAuthorised ==
    /\ \A caller \in Address, target \in Address, role \in Role :
          LET r == grant_role(Cur, caller, target, role)
          IN  /\ r.err = "Ok" =>
                    /\ roles[caller] \in {"SuperAdmin", "Admin"}
                    /\ role = "SuperAdmin" => roles[caller] = "SuperAdmin"
              /\ roles[caller] \notin {"SuperAdmin", "Admin"} =>
                    (r.err = ErrNotAuthorized /\ r.st = Cur)
              /\ (roles[caller] = "Admin" /\ role = "SuperAdmin") =>
                    (r.err # "Ok" /\ r.st = Cur)
    /\ \A caller \in Address \ SuperAdmins :
          /\ initialized => SuperAdminsOf(init(Cur, caller).st) \subseteq SuperAdmins
          /\ \A target \in Address :
                /\ \A role \in Role :
                      SuperAdminsOf(grant_role(Cur, caller, target, role).st)
                          \subseteq SuperAdmins
                /\ SuperAdminsOf(revoke_role(Cur, caller, target).st)
                       \subseteq SuperAdmins
                /\ SuperAdminsOf(transfer_super_admin(Cur, caller, target).st)
                       \subseteq SuperAdmins
                /\ SuperAdminsOf(set_oracle(Cur, caller, target).st)
                       \subseteq SuperAdmins
          /\ \A token \in Tokens, goal \in GoalInputs, proof_hash \in Hashes,
                deadline \in DeadlineInputs :
                SuperAdminsOf(register_project(Cur, caller, token, goal,
                                               proof_hash, deadline).st)
                    \subseteq SuperAdmins
          /\ \A project_id \in ProjectIds :
                /\ \A a \in AmountInputs :
                      SuperAdminsOf(deposit(Cur, project_id, caller, a, TRUE).st)
                          \subseteq SuperAdmins
                /\ \A h \in Hashes :
                      SuperAdminsOf(verify_and_release(Cur, project_id, h, caller).st)
                          \subseteq SuperAdmins

\* An Admin beside the SuperAdmin: its grant of SuperAdmin to itself fails,
\* its grant of another role succeeds.
C15_Witness ==
    \E caller \in Address, other \in Address :
        /\ roles[caller] = "Admin"
        /\ roles[other] = "SuperAdmin"
        /\ grant_role(Cur, caller, caller, "SuperAdmin").err = ErrNotAuthorized
        /\ grant_role(Cur, caller, caller, "Oracle").err = "Ok"

\* C16: transfer_super_admin(A, B) fails with NotAuthorized and changes
\* nothing unless A holds SuperAdmin; when A does, it succeeds and in the
\* state it leaves B holds SuperAdmin, A (if another address) does not, no
\* third address's role has changed, and nothing but the roles has changed.
C16_TransferSuperAdmin ==
    \A A \in Address, B \in Address :
        LET r == transfer_super_admin(Cur, A, B)
        IN  IF roles[A] = "SuperAdmin"
            THEN /\ r.err = "Ok"
                 /\ has_role(r.st, B, "SuperAdmin")
                 /\ A # B => ~has_role(r.st, A, "SuperAdmin")
                 /\ \A c \in Address \ {A, B} : r.st.roles[c] = roles[c]
                 /\ [r.st EXCEPT !.roles = roles] = Cur
            ELSE r.err = ErrNotAuthorized /\ r.st = Cur

\* The SuperAdmin and an address holding another role, with a project
\* registered: a transfer to that address succeeds, one from it fails.
C16_Witness ==
    \E A \in Address, B \in Address :
        /\ A # B
        /\ roles[A] = "SuperAdmin"
        /\ roles[B] = "ProjectManager"
        /\ Projects # {}
        /\ transfer_super_admin(Cur, A, B).err = "Ok"
        /\ transfer_super_admin(Cur, B, A).err = ErrNotAuthorized

\* C17: revoke_role(caller, target) fails with NotAuthorized unless caller
\* holds SuperAdmin or Admin, fails with RoleNotFound for such a caller when
\* target holds no role, and fails when target holds SuperAdmin; when it
\* succeeds target holds no role afterwards and nothing else has changed; when
\* it fails nothing has changed.
C17_RevokeRole ==
    \A caller \in Address, target \in Address :
        LET r == revoke_role(Cur, caller, target)
        IN  /\ ~require_admin_or_above(Cur, caller) => r.err = ErrNotAuthorized
            /\ (require_admin_or_above(Cur, caller) /\ roles[target] = NoRole)
                   => r.err = ErrRoleNotFound
            /\ roles[target] = "SuperAdmin" => r.err # "Ok"
            /\ r.err = "Ok" => r.st = [Cur EXCEPT !.roles[target] = NoRole]
            /\ r.err # "Ok" => r.st = Cur

\* An Admin and the SuperAdmin: the Admin cannot revoke the SuperAdmin, the
\* SuperAdmin can revoke the Admin.
C17_Witness ==
    \E caller \in Address, target \in Address :
        /\ roles[caller] = "Admin"
        /\ roles[target] = "SuperAdmin"
        /\ revoke_role(Cur, caller, target).err # "Ok"
        /\ revoke_role(Cur, target, caller).err = "Ok"

\* C18: register_project succeeds only for a creator that holds SuperAdmin,
\* Admin or ProjectManager at the time of the call; for a creator holding
\* Oracle or no role it fails with NotAuthorized, storing no project and
\* leaving the id counter (and everything else) as it was.
C18_RegisterAuthorised ==
    \A creator \in Address, token \in Tokens, goal \in GoalInputs,
       proof_hash \in Hashes, deadline \in DeadlineInputs :
        LET r == register_project(Cur, creator, token, goal, proof_hash, deadline)
        IN  /\ r.err = "Ok" =>
                  roles[creator] \in {"SuperAdmin", "Admin", "ProjectManager"}
            /\ roles[creator] \in {"Oracle", NoRole} =>
                  /\ r.err = ErrNotAuthorized
                  /\ r.st.ProjectCount = ProjectCount
                  /\ r.st.ProjConfig = ProjConfig
                  /\ r.st.ProjState = ProjState
                  /\ r.st = Cur

\* The creator of a registered project has since lost the role it registered
\* with (revoked, or overwritten by a grant of Oracle), and a registration
\* with a valid goal and deadline now fails for it.
C18_Witness ==
    \E id \in Projects, h \in Hashes :
        LET creator == ProjConfig[id].creator
        IN  /\ roles[creator] \in {"Oracle", NoRole}
            /\ ProjectCount < MaxProjects
            /\ timestamp < MaxTime
            /\ register_project(Cur, creator, ProjConfig[id].token, 1, h,
                                MaxTime).err = ErrNotAuthorized

\* C19: register_project by a creator holding SuperAdmin, Admin or
\* ProjectManager fails with InvalidMilestones, changing nothing, when
\* goal <= 0 or deadline <= the ledger timestamp; and every stored project
\* has goal > 0 and deadline > 0.
C19_InvalidMilestones ==
    /\ \A creator \in Address, token \in Tokens, goal \in GoalInputs,
          proof_hash \in Hashes, deadline \in DeadlineInputs :
          LET r == register_project(Cur, creator, token, goal, proof_hash, deadline)
          IN  (/\ require_can_register(Cur, creator)
               /\ (goal <= 0 \/ deadline <= timestamp))
                  => (r.err = ErrInvalidMilestones /\ r.st = Cur)
    /\ \A id \in DOMAIN ProjConfig :
          /\ ProjConfig[id].goal > 0
          /\ ProjConfig[id].deadline > 0
          /\ get_project(Cur, id).ret.goal > 0
          /\ get_project(Cur, id).ret.deadline > 0

\* Time has advanced after a project was registered: a registration with the
\* deadline equal to the current time fails, as does one with goal 0.
C19_Witness ==
    \E creator \in Address, id \in Projects :
        /\ timestamp > 0
        /\ ProjConfig[id].deadline > timestamp
        /\ require_can_register(Cur, creator)
        /\ register_project(Cur, creator, "t1", 1, "h1", timestamp).err
               = ErrInvalidMilestones
        /\ register_project(Cur, creator, "t1", 0, "h1", MaxTime).err
               = ErrInvalidMilestones

\* The storage s as it would be with k under DataKey::OracleKey.
WithOracleKey(s, k) == [s EXCEPT !.OracleKey = k]

\* C20: verify_and_release succeeds, and so changes a status, only when an
\* address is stored as the oracle, that address holds the Oracle role and it
\* authorised the call; with no oracle stored, or with the stored oracle
\* holding another role or none, the call fails and leaves every status (and
\* the rest of the storage) as it was.  Checked for the storage as it is and
\* for the same storage with each address stored as the oracle.
C20_OracleRoleRequired ==
    \A k \in Address \cup {OracleKey}, project_id \in ProjectIds, h \in Hashes,
       signer \in Address :
        LET s == WithOracleKey(Cur, k)
            r == verify_and_release(s, project_id, h, signer)
        IN  /\ r.err = "Ok" =>
                  (k # NoAddress /\ roles[k] = "Oracle" /\ signer = k)
            /\ r.st.ProjState # ProjState =>
                  (k # NoAddress /\ roles[k] = "Oracle" /\ signer = k)
            /\ (k = NoAddress \/ roles[k] # "Oracle") =>
                  (r.err # "Ok" /\ r.st = s /\ r.events = <<>>)

\* A funded project while one address holds the Oracle role and the other
\* does not: the call fails as things are (no oracle is stored), and with the
\* address that lacks the role stored as the oracle it fails at the role gate.
C20_Witness ==
    \E id \in Projects, o \in Address, k \in Address :
        /\ ProjState[id].balance > 0
        /\ roles[o] = "Oracle"
        /\ roles[k] # "Oracle"
        /\ verify_and_release(Cur, id, ProjConfig[id].proof_hash, o).err
               = PanicOracleNotSet
        /\ verify_and_release(WithOracleKey(Cur, k), id,
                              ProjConfig[id].proof_hash, k).err = ErrNotAuthorized
        /\ verify_and_release(WithOracleKey(Cur, o), id,
                              ProjConfig[id].proof_hash, o).err = "Ok"

\* C21: set_oracle(caller, oracle) fails with NotAuthorized, changing
\* nothing, unless caller holds SuperAdmin or Admin; when it succeeds oracle
\* holds the Oracle role, every address that held Oracle still holds it, no
\* address other than oracle has changed role, and nothing but the roles has
\* changed.
C21_SetOracle ==
    \A caller \in Address, oracle \in Address :
        LET r == set_oracle(Cur, caller, oracle)
        IN  IF ~require_admin_or_above(Cur, caller)
            THEN r.err = ErrNotAuthorized /\ r.st = Cur
            ELSE /\ r.err = "Ok"
                 /\ has_role(r.st, oracle, "Oracle")
                 /\ \A a \in Address :
                        roles[a] = "Oracle" => r.st.roles[a] = "Oracle"
                 /\ \A a \in Address \ {oracle} : r.st.roles[a] = roles[a]
                 /\ [r.st EXCEPT !.roles = roles] = Cur

\* One address already holds Oracle and the other, an Admin or SuperAdmin,
\* sets itself as oracle: both hold Oracle afterwards.
C21_Witness ==
    \E caller \in Address, old \in Address :
        /\ caller # old
        /\ roles[old] = "Oracle"
        /\ require_admin_or_above(Cur, caller)
        /\ Projects # {}
        /\ set_oracle(Cur, caller, caller).err = "Ok"
        /\ set_oracle(Cur, old, caller).err = ErrNotAuthorized

\* C22: an address holds at most one role: after a successful
\* grant_role(caller, target, r), role_of(target) is r and has_role(target, q)
\* is false for every other role q, whatever target held before; and in every
\* state has_role(a, q) is true for at most one role q.
C22_OneRolePerAddress ==
    /\ \A a \in Address :
          Cardinality({q \in Role : has_role(Cur, a, q)}) <= 1
    /\ \A caller \in Address, target \in Address, role \in Role :
          LET r == grant_role(Cur, caller, target, role)
          IN  r.err = "Ok" =>
                  /\ role_of(r.st, target) = role
                  /\ has_role(r.st, target, role)
                  /\ \A q \in Role \ {role} : ~has_role(r.st, target, q)

\* A target that holds ProjectManager is granted Oracle by the SuperAdmin.
C22_Witness ==
    \E caller \in Address, target \in Address :
        /\ roles[caller] = "SuperAdmin"
        /\ roles[target] = "ProjectManager"
        /\ grant_role(Cur, caller, target, "Oracle").err = "Ok"
        /\ role_of(grant_role(Cur, caller, target, "Oracle").st, target) = "Oracle"

\* The transaction hash given to a notification when it is handed to the
\* indexer's decoder.
TxHashes == {"tx1", "tx2"}

\* The PifpEvent the indexer stores for a notification of the contract,
\* whichever shape the RPC node gives the topic strings.
DecodedAs(event, event_type, project_id) ==
    \A form \in TopicForms, tx_hash \in TxHashes :
        LET decoded == decode_single(raw_event(event, form, ledger_seq, tx_hash),
                                     ContractAddress)
        IN  /\ decoded # None
            /\ decoded[1].event_type = event_type
            /\ decoded[1].project_id = project_id

\* C23: every successful deposit publishes exactly one notification, with
\* topics ("funded", project_id) and payload (donator, amount), which the
\* indexer classifies as project_funded for that project id; a failed deposit
\* publishes none.
C23_DepositFundedEvent ==
    \A project_id \in ProjectIds, donator \in Address, amount \in AmountInputs,
       overflow_checks \in BOOLEAN :
        LET r == deposit(Cur, project_id, donator, amount, overflow_checks)
        IN  IF r.err = "Ok"
            THEN /\ Len(r.events) = 1
                 /\ r.events[1].topics = <<"funded", project_id>>
                 /\ r.events[1].data = <<donator, amount>>
                 /\ DecodedAs(r.events[1], "project_funded",
                              Some(to_string(project_id)))
            ELSE r.events = <<>>

\* C24: every successful register_project publishes a notification with
\* topics ("created", project_id) that carries the creator, the token and the
\* goal; a failed registration publishes none.
C24_RegisterCreatedEvent ==
    \A creator \in Address, token \in Tokens, goal \in GoalInputs,
       proof_hash \in Hashes, deadline \in DeadlineInputs :
        LET r == register_project(Cur, creator, token, goal, proof_hash, deadline)
        IN  IF r.err = "Ok"
            THEN /\ Len(r.events) = 1
                 /\ r.events[1].topics = <<"created", r.ret.id>>
                 /\ r.events[1].data = [creator |-> creator, token |-> token,
                                        goal |-> goal]
            ELSE r.events = <<>>

IndexerEvents ==
    {decode_single(raw, config_contract_id)[1] : raw \in {r \in RawEvents : r.topic # <<>>}}
RowsWithKey(table, ev) == {i \in DOMAIN table : event_key(table[i]) = event_key(ev)}

ProjectKeys(id) == {ConfigKey(id), StateKey(id)}
Renewed(lu, id) ==
    /\ DOMAIN lu = DOMAIN live_until \cup ProjectKeys(id)
    /\ \A key \in ProjectKeys(id) :
            /\ remaining(lu, ledger_seq, key) >= PERSISTENT_LIFETIME_THRESHOLD
            /\ key \in DOMAIN live_until =>
                    LET left == remaining(live_until, ledger_seq, key)
                    IN  /\ left < PERSISTENT_LIFETIME_THRESHOLD =>
                                remaining(lu, ledger_seq, key) = PERSISTENT_BUMP_AMOUNT
                        /\ left > PERSISTENT_LIFETIME_THRESHOLD =>
                                lu[key] = live_until[key]
    /\ \A key \in DOMAIN live_until : lu[key] >= live_until[key]
    /\ \A key \in DOMAIN live_until \ ProjectKeys(id) : lu[key] = live_until[key]

\* C27 (as amended): whenever an operation that succeeds reads or writes a
\* persistent Config or State entry, that entry's remaining lifetime
\* afterwards is at least the 7-day threshold (30 days when it was below 7
\* days), no lifetime is shortened and the entries of other projects are not
\* renewed; an operation that fails leaves every lifetime as it was.
C27_SuccessRenews ==
    \A id \in ProjectIds, at_threshold \in BOOLEAN :
        /\ LET r == get_project(Cur, id)
               lu == get_project_ttl(live_until, ledger_seq, r, id, at_threshold)
           IN  IF r.err = "Ok" THEN Renewed(lu, id) ELSE lu = live_until
        /\ \A amount \in AmountInputs, donator \in Address :
               LET r == deposit(Cur, id, donator, amount, TRUE)
                   lu == deposit_ttl(live_until, ledger_seq, r, id, at_threshold)
               IN  IF r.err = "Ok" THEN Renewed(lu, id) ELSE lu = live_until
        /\ \A signer \in Address, submitted_proof_hash \in Hashes :
               LET r == verify_and_release(Cur, id, submitted_proof_hash, signer)
                   lu == verify_and_release_ttl(live_until, ledger_seq, r, id,
                                                at_threshold)
               IN  IF r.err = "Ok" THEN Renewed(lu, id) ELSE lu = live_until
        /\ \A creator \in Address, goal \in GoalInputs, new_ttl \in NewEntryTtls :
               LET r == register_project(Cur, creator, "t1", goal, TtlHash, MaxTime)
                   lu == register_project_ttl(live_until, ledger_seq, r, new_ttl,
                                              at_threshold)
               IN  IF r.err = "Ok" THEN Renewed(lu, r.ret.id) ELSE lu = live_until

\* Project id has less than the threshold left, another project has more
\* than the extension left, and a deposit on id succeeds and extends id's
\* State entry to 30 days from the current ledger.
C27_Witness ==
    \E id \in Projects, other \in Projects :
        /\ id # other
        /\ remaining(live_until, ledger_seq, StateKey(id)) < PERSISTENT_LIFETIME_THRESHOLD
        /\ remaining(live_until, ledger_seq, StateKey(other)) > PERSISTENT_BUMP_AMOUNT
        /\ LET r == deposit(Cur, id, TtlAdmin, 1, TRUE)
               lu == deposit_ttl(live_until, ledger_seq, r, id, FALSE)
           IN  /\ r.err = "Ok"
               /\ lu[StateKey(id)] = ledger_seq + PERSISTENT_BUMP_AMOUNT
               /\ lu[StateKey(other)] = live_until[StateKey(other)]

\* C27 (as stated): whenever an operation reads or writes a persistent Config
\* or State entry, whether it then succeeds or fails, that entry's remaining
\* lifetime afterwards is at least the 7-day threshold (30 days when it was
\* below 7 days), no lifetime is shortened and the entries of other projects
\* are not renewed.  deposit reads both entries of a project that exists.
C27_ReadOrWriteRenews ==
    \A id \in ProjectIds, at_threshold \in BOOLEAN :
        /\ LET r == get_project(Cur, id)
               lu == get_project_ttl(live_until, ledger_seq, r, id, at_threshold)
           IN  r.err = "Ok" => Renewed(lu, id)
        /\ \A amount \in AmountInputs, donator \in Address :
               LET r == deposit(Cur, id, donator, amount, TRUE)
                   lu == deposit_ttl(live_until, ledger_seq, r, id, at_threshold)
               IN  has_project_config(Cur, id) /\ has_project_state(Cur, id) =>
                       Renewed(lu, id)
        /\ \A creator \in Address, goal \in GoalInputs, new_ttl \in NewEntryTtls :
               LET r == register_project(Cur, creator, "t1", goal, TtlHash, MaxTime)
                   lu == register_project_ttl(live_until, ledger_seq, r, new_ttl,
                                              at_threshold)
               IN  r.err = "Ok" => Renewed(lu, r.ret.id)

\* C28: a successful deposit changes, in the contract's storage, only the
\* balance of the target project's State; a successful verify_and_release
\* (called with an oracle stored, from every status) changes only the status
\* of the target project's State; so neither changes the id counter, the
\* roles, any Config or any other project's State.
C28_FrameEffect ==
    /\ \A project_id \in ProjectIds, donator \in Address, amount \in AmountInputs,
          overflow_checks \in BOOLEAN :
            LET r == deposit(Cur, project_id, donator, amount, overflow_checks)
            IN  r.err = "Ok" =>
                    /\ r.st.ProjState[project_id].status = ProjState[project_id].status
                    /\ r.st.ProjState[project_id].balance
                            = ProjState[project_id].balance + amount
                    /\ [r.st EXCEPT !.ProjState[project_id].balance =
                                        ProjState[project_id].balance,
                                    !.tokenBalance = tokenBalance] = Cur
    /\ \A project_id \in Projects, O \in Address, submitted_proof_hash \in Hashes,
          status \in ProjectStatus :
            LET s == WithOracle(WithStatus(Cur, project_id, status), O)
                r == verify_and_release(s, project_id, submitted_proof_hash, O)
            IN  r.err = "Ok" =>
                    /\ r.st.ProjState[project_id].balance = ProjState[project_id].balance
                    /\ r.st.ProjState[project_id].status = "Completed"
                    /\ [r.st EXCEPT !.ProjState[project_id].status = status] = s

\* Two projects with different balances exist; a deposit on the one and a
\* verify_and_release of it by a stored oracle succeed.
C28_Witness ==
    \E project_id \in Projects, other \in Projects, O \in Address :
        /\ ProjState[other].balance > ProjState[project_id].balance
        /\ deposit(Cur, project_id, O, 1, TRUE).err = "Ok"
        /\ deposit(Cur, project_id, O, 1, TRUE).st.ProjState[other] = ProjState[other]
        /\ verify_and_release(WithOracle(Cur, O), project_id,
                              ProjConfig[project_id].proof_hash, O).err = "Ok"

\* C29: with N successful registrations the id counter is N and a Config and
\* a State entry exist for exactly the ids 0..N-1, so that get_project(k)
\* succeeds for every k < N and for no other id; no step removes an entry.
C29_EntriesExist ==
    /\ ProjectCount = Len(returned_ids)
    /\ DOMAIN ProjConfig = 0..(ProjectCount - 1)
    /\ DOMAIN ProjState = 0..(ProjectCount - 1)
    /\ \A k \in ProjectIds :
            IF k < ProjectCount
            THEN /\ has_project_config(Cur, k) /\ has_project_state(Cur, k)
                 /\ get_project(Cur, k).err = "Ok"
                 /\ get_project(Cur, k).ret.id = k
            ELSE /\ ~has_project_config(Cur, k) /\ ~has_project_state(Cur, k)
                 /\ get_project(Cur, k).err # "Ok"
C29_EntriesKept ==
    /\ DOMAIN ProjConfig \subseteq DOMAIN ProjConfig'
    /\ DOMAIN ProjState \subseteq DOMAIN ProjState'
    /\ Len(returned_ids) <= Len(returned_ids')
C29_CounterAndEntries == [][C29_EntriesKept]_vars /\ []C29_EntriesExist

\* Two projects are registered, time has passed and a donation was made, and
\* both projects can still be read.
C29_Witness ==
    /\ ProjectCount = 2
    /\ Len(returned_ids) = 2
    /\ timestamp > 0
    /\ ProjState[0].balance > 0
    /\ get_project(Cur, 0).err = "Ok"
    /\ get_project(Cur, 1).err = "Ok"

\* The storage s as it would be at ledger time t.
AtTime(s, t) == [s EXCEPT !.timestamp = t]
SameAtTime(r, rt, t) ==
    /\ rt.err = r.err
    /\ rt.ret = r.ret
    /\ rt.events = r.events
    /\ rt.st = AtTime(r.st, t)

\* C30: a step that advances the ledger time changes no project's status or
\* balance, and deposit and verify_and_release (the latter also with an
\* oracle stored) end the same way, with the same effect, at every ledger
\* time, before and after the project's deadline.
C30_TimeStep == timestamp' # timestamp => ProjState' = ProjState /\ ProjConfig' = ProjConfig
C30_DeadlineIgnored ==
    \A t \in 0..MaxTime, project_id \in ProjectIds :
        /\ \A donator \in Address, amount \in AmountInputs, overflow_checks \in BOOLEAN :
                SameAtTime(deposit(Cur, project_id, donator, amount, overflow_checks),
                           deposit(AtTime(Cur, t), project_id, donator, amount,
                                   overflow_checks), t)
        /\ \A O \in Address, submitted_proof_hash \in Hashes :
                \A s \in {Cur, WithOracle(Cur, O)} :
                    SameAtTime(verify_and_release(s, project_id, submitted_proof_hash, O),
                               verify_and_release(AtTime(s, t), project_id,
                                                  submitted_proof_hash, O), t)
C30_PastDeadline == [][C30_TimeStep]_vars /\ []C30_DeadlineIgnored

\* The ledger time is past the deadline of a project that is still Funding
\* and holds a donation; a further deposit succeeds, and so does a
\* verify_and_release by a stored oracle.
C30_Witness ==
    \E project_id \in Projects, O \in Address :
        /\ timestamp > ProjConfig[project_id].deadline
        /\ ProjState[project_id].status = "Funding"
        /\ ProjState[project_id].balance > 0
        /\ deposit(Cur, project_id, O, 1, TRUE).err = "Ok"
        /\ verify_and_release(WithOracle(Cur, O), project_id,
                              ProjConfig[project_id].proof_hash, O).err = "Ok"

\* C31: when the response carries a next cursor, the next start ledger that
\* poll_once returns is the start ledger it was given; only when there is no
\* next cursor is it the latest known ledger (never below the start ledger).
C31_CursorKeepsLedger ==
    running =>
        \A page \in Pages, next_cursor \in Cursors, latest_ledger \in LatestLedgers :
            LET r == poll_once(db_events, cursor_row, current_ledger,
                               Fetched(page, next_cursor, latest_ledger), 0, FALSE)
            IN  /\ ~r.err
                /\ r.ret[2] = next_cursor
                /\ IF next_cursor # None THEN r.ret[1] = current_ledger
                   ELSE r.ret[1] = IF latest_ledger = None THEN current_ledger
                                   ELSE max(latest_ledger[1], current_ledger)

\* The responses after which the attempt counts as failed and is repeated:
\* the request failed, HTTP 429, or an RPC error other than the two hard codes.
HardCodes == {-32600, -32601}
Answered(response) == response.send_ok /\ response.status # 429 /\ response.json_ok
FailedAttempt(response) ==
    \/ ~response.send_ok
    \/ response.send_ok /\ response.status = 429
    \/ Answered(response) /\ response.error # None /\ response.error[1] \notin HardCodes
HardError(response) ==
    Answered(response) /\ response.error # None /\ response.error[1] \in HardCodes
Success(response) ==
    Answered(response) /\ response.error = None /\ response.result # None

\* C32: in fetch_events the first delay is 2 seconds, every later delay is twice
\* the one before or 60 seconds if that is less, and the delay after a failed
\* attempt (request failed, HTTP 429, soft RPC error) is slept before the next
\* attempt; an RPC error with code -32600 or -32601 ends the call with an error
\* and without a sleep, every other RPC error code leads to another attempt,
\* and a success response ends the call with its events, cursor and latest
\* ledger.
C32_RetrySchedule ==
    /\ \A i \in 1..Len(slept) :
        /\ slept[i] <= 60
        /\ slept[i] = IF i = 1 THEN 2 ELSE IF slept[i - 1] * 2 < 60 THEN slept[i - 1] * 2 ELSE 60
    /\ fetch_pc = "loop" =>
        /\ backoff = IF slept = <<>> THEN 2
                     ELSE IF slept[Len(slept)] * 2 < 60 THEN slept[Len(slept)] * 2 ELSE 60
        /\ \A response \in Responses :
            LET a == fetch_attempt(backoff, response)
            IN  /\ FailedAttempt(response) => a.retry /\ a.sleep = backoff
                /\ HardError(response) => ~a.retry /\ a.ret.err
                /\ Success(response) =>
                    /\ ~a.retry
                    /\ a.ret = [err |-> FALSE, events |-> response.result[1].events,
                                cursor |-> response.result[1].cursor,
                                latest_ledger |-> response.result[1].latest_ledger]
    /\ fetch_pc = "ok" => fetch_ret # None /\ ~fetch_ret[1].err
    /\ fetch_pc = "err" => fetch_ret # None /\ fetch_ret[1].err

\* A call that slept 2, 4, 8, 16, 32, 60 and 60 seconds and then returned a
\* page of events.
C32_Witness ==
    /\ fetch_pc = "ok"
    /\ Len(slept) >= 7
    /\ slept[5] = 32 /\ slept[6] = 60 /\ slept[7] = 60
    /\ fetch_ret[1].events # <<>>

\* The request the loop of run sends next with the locals (ledger, cur).
NextRequest(ledger, cur) == build_params(config_contract_id, ledger, cur, 100)

\* The position the cursor row stands for: its ledger if greater than 0,
\* else the configured start ledger, and its cursor string.
Persisted(row) ==
    <<IF row.last_ledger > 0 THEN row.last_ledger ELSE config_start_ledger,
      row.last_cursor>>

\* C33: a start of the indexer sets the locals to the persisted position (the
\* persisted ledger if greater than 0, else the configured start ledger, and the
\* persisted cursor string) and so sends the request that belongs to that
\* position; every successful poll leaves in the cursor row exactly the pair it
\* hands to the loop for the next request.
C33_ResumeSameRequest ==
    /\ [](running =>
            \A page \in Pages, next_cursor \in Cursors, latest_ledger \in LatestLedgers :
                LET r == poll_once(db_events, cursor_row, current_ledger,
                                   Fetched(page, next_cursor, latest_ledger), 0, FALSE)
                IN  ~r.err =>
                        /\ r.row = [last_ledger |-> r.ret[1], last_cursor |-> r.ret[2]]
                        /\ NextRequest(Persisted(r.row)[1], Persisted(r.row)[2])
                            = NextRequest(r.ret[1], r.ret[2]))
    /\ [][(~running /\ running') =>
            /\ <<current_ledger', cursor'>> = Persisted(cursor_row)
            /\ NextRequest(current_ledger', cursor')
                = NextRequest(Persisted(cursor_row)[1], Persisted(cursor_row)[2])]_vars

\* P(s, name, r) holds of the outcome r of every call of deposit and of
\* verify_and_release for project_id (for every id) on the storage s.
EveryCallOn(s, project_id, P(_, _, _)) ==
    /\ \A donator \in Address, amount \in AmountInputs, overflow_checks \in BOOLEAN :
          P(s, "deposit", deposit(s, project_id, donator, amount, overflow_checks))
    /\ \A signer \in Address, submitted_proof_hash \in Hashes :
          P(s, "verify_and_release",
            verify_and_release(s, project_id, submitted_proof_hash, signer))
EveryProjectCall(s, P(_, _, _)) ==
    \A project_id \in ProjectIds : EveryCallOn(s, project_id, P)

\* P(s, name, r) holds of the outcome r of every call of every entry point
\* (named `name`) on the storage s.
EveryOutcome(s, P(_, _, _)) ==
    /\ \A a \in Address : P(s, "init", init(s, a))
    /\ \A caller \in Address, target \in Address :
          /\ P(s, "revoke_role", revoke_role(s, caller, target))
          /\ P(s, "transfer_super_admin", transfer_super_admin(s, caller, target))
          /\ P(s, "set_oracle", set_oracle(s, caller, target))
          /\ \A role \in Role : P(s, "grant_role", grant_role(s, caller, target, role))
    /\ \A creator \in Address, token \in Tokens, goal \in GoalInputs,
          proof_hash \in Hashes, deadline \in DeadlineInputs :
          P(s, "register_project",
            register_project(s, creator, token, goal, proof_hash, deadline))
    /\ \A project_id \in ProjectIds : P(s, "get_project", get_project(s, project_id))
    /\ EveryProjectCall(s, P)

\* The storage as it would be with an oracle stored.
OracleStores == {WithOracle(Cur, O) : O \in Address}

StatusesLegal(s) ==
    \A id \in DOMAIN s.ProjState : s.ProjState[id].status \in {"Funding", "Completed"}
C34_Step(s, name, r) ==
    /\ StatusesLegal(r.st)
    /\ \A id \in DOMAIN r.st.ProjState :
          IF id \in DOMAIN s.ProjState
          THEN \/ r.st.ProjState[id].status = s.ProjState[id].status
               \/ /\ name = "verify_and_release"
                  /\ r.st.ProjState[id].status = "Completed"
          ELSE name = "register_project" /\ r.st.ProjState[id].status = "Funding"

\* C34: every project's status is Funding or Completed, never Active or
\* Expired: register_project stores a new project as Funding, and no call
\* changes the status of a stored project except verify_and_release, which sets
\* Completed.  Checked for every call on the storage as it is, for deposit and
\* verify_and_release also with an oracle stored, and for the calls on a
\* project as they would be with an oracle stored and that project Completed.
C34_FundingOrCompleted ==
    /\ StatusesLegal(Cur)
    /\ EveryOutcome(Cur, C34_Step)
    /\ \A s \in OracleStores :
          /\ EveryProjectCall(s, C34_Step)
          /\ \A id \in Projects :
                EveryCallOn(WithStatus(s, id, "Completed"), id, C34_Step)

\* Two projects are stored, the ledger time is past the deadline of one that is
\* still Funding, and a stored oracle would set it Completed.
C34_Witness ==
    /\ ProjectCount = 2
    /\ \E project_id \in Projects, O \in Address :
        /\ timestamp >= ProjConfig[project_id].deadline
        /\ ProjState[project_id].status = "Funding"
        /\ verify_and_release(WithOracle(Cur, O), project_id,
                              ProjConfig[project_id].proof_hash, O)
                .st.ProjState[project_id].status = "Completed"

\* A call leaves a Completed project Completed; it publishes a "verified"
\* event only if it is a successful verify_and_release, then exactly one, for a
\* project that was not Completed before and is Completed after; and a
\* successful verify_and_release publishes one.
IsVerified(event) == event.topics = <<"verified">>
C35_Step(s, name, r) ==
    /\ \A id \in DOMAIN s.ProjState :
          s.ProjState[id].status = "Completed" => r.st.ProjState[id].status = "Completed"
    /\ \A i \in 1..Len(r.events) :
          IsVerified(r.events[i]) =>
              /\ name = "verify_and_release" /\ r.err = "Ok" /\ Len(r.events) = 1
              /\ s.ProjState[r.events[i].data].status # "Completed"
              /\ r.st.ProjState[r.events[i].data].status = "Completed"
    /\ (name = "verify_and_release" /\ r.err = "Ok") =>
          Len(r.events) = 1 /\ IsVerified(r.events[1])

\* C35: verify_and_release succeeds at most once per project.  A success
\* publishes one "verified" event for the project and leaves it Completed; no
\* call of any entry point takes a project out of Completed; and on a Completed
\* project every verify_and_release, whatever the signer and the hash, fails
\* and publishes nothing.  Checked for every call on the storage as it is, for
\* deposit and verify_and_release with an oracle stored, and for the calls on
\* a project on the storage its successful verify_and_release leaves behind.
C35_VerifyOnce ==
    /\ EveryOutcome(Cur, C35_Step)
    /\ \A s \in OracleStores :
          /\ EveryProjectCall(s, C35_Step)
          /\ \A id \in Projects :
                LET first == verify_and_release(s, id, ProjConfig[id].proof_hash,
                                                s.OracleKey)
                IN  first.err = "Ok" =>
                        /\ first.st = WithStatus(s, id, "Completed")
                        /\ EveryCallOn(first.st, id, C35_Step)
                        /\ \A signer \in Address, submitted_proof_hash \in Hashes :
                              LET again == verify_and_release(first.st, id,
                                                              submitted_proof_hash, signer)
                              IN  again.err # "Ok" /\ again.events = <<>>
                                  /\ again.st = first.st

\* Two Funding projects, one of them with a donation; with an oracle stored a
\* verify_and_release of that one succeeds and a second one by the same oracle
\* with the same hash fails with MilestoneAlreadyReleased.
C35_Witness ==
    \E id \in Projects, other \in Projects, O \in Address :
        /\ id # other
        /\ ProjState[id].balance > 0
        /\ LET first == verify_and_release(WithOracle(Cur, O), id,
                                           ProjConfig[id].proof_hash, O)
           IN  /\ first.err = "Ok"
               /\ verify_and_release(first.st, id, ProjConfig[id].proof_hash, O).err
                      = ErrMilestoneAlreadyReleased

\* The sum of f over the set S.
RECURSIVE SumOver(_, _)
SumOver(f, S) ==
    IF S = {} THEN 0
    ELSE LET x == CHOOSE y \in S : TRUE IN f[x] + SumOver(f, S \ {x})

\* The recorded balances of the projects funded in `token`, added up, and the
\* amount of `token` the contract holds.
RecordedTotal(s, token) ==
    SumOver([id \in DOMAIN s.ProjState |-> s.ProjState[id].balance],
            {id \in DOMAIN s.ProjState : s.ProjConfig[id].token = token})
Held(s, token) == s.tokenBalance[token][ContractAddress]

\* A successful deposit raises the recorded total and the contract's holdings
\* of the project's asset by its amount; every other call, and every failed
\* deposit, changes neither.
C36_Step(s, name, r) ==
    \A token \in Tokens :
        LET moved == IF name = "deposit" /\ r.err = "Ok"
                        /\ s.ProjConfig[r.events[1].topics[2]].token = token
                     THEN r.events[1].data[2] ELSE 0
        IN  /\ moved >= 0
            /\ RecordedTotal(r.st, token) = RecordedTotal(s, token) + moved
            /\ Held(r.st, token) = Held(s, token) + moved
            /\ \A h \in Address :
                  r.st.tokenBalance[token][h] <= s.tokenBalance[token][h]

\* C36: for each asset the recorded balances of all projects add up to the
\* amount the successful deposits moved into the contract, which is what the
\* contract holds of the asset: the two start at 0, a successful deposit adds
\* its amount to both, and no other call (a verify_and_release by a stored
\* oracle included) changes either.
C36_BalancesMatchHoldings ==
    /\ \A token \in Tokens :
          /\ RecordedTotal(Cur, token) = Held(Cur, token)
          /\ Held(Cur, token)
                + SumOver(tokenBalance[token], Address) = Cardinality(Address) * InitialMint
    /\ EveryOutcome(Cur, C36_Step)
    /\ \A s \in OracleStores, project_id \in ProjectIds, submitted_proof_hash \in Hashes :
          C36_Step(s, "verify_and_release",
                   verify_and_release(s, project_id, submitted_proof_hash, s.OracleKey))

\* Two projects hold donations of different size and the contract holds
\* exactly their sum.
C36_Witness ==
    \E id \in Projects, other \in Projects :
        /\ id # other
        /\ ProjState[id].balance > 0
        /\ ProjState[other].balance > ProjState[id].balance
        /\ Held(Cur, ProjConfig[id].token) = ProjState[id].balance + ProjState[other].balance

C38_LedgerNeverDecreases ==
    running =>
        \A page \in Pages, next_cursor \in Cursors, latest_ledger \in LatestLedgers,
           insert_fail_at \in 0..MaxBatch, save_fails \in BOOLEAN :
            LET r == poll_once(db_events, cursor_row, current_ledger,
                               Fetched(page, next_cursor, latest_ledger),
                               insert_fail_at, save_fails)
            IN  /\ r.row.last_ledger >= cursor_row.last_ledger
                /\ ~r.err => r.row.last_ledger >= current_ledger

\* The notification is a row of the table.
Stored(table, ev) == \E i \in DOMAIN table : table[i] = ev

\* What a poll of the running loop does with a page: if it fails the cursor
\* row is as before (the position is not moved past the page), and if it
\* succeeds every notification of the page is a row of `events` by the time
\* the cursor row holds the position after the page.
C39_PageStoredBeforeCursor ==
    running =>
        \A page \in Pages, next_cursor \in Cursors, latest_ledger \in LatestLedgers,
           insert_fail_at \in 0..MaxBatch, save_fails \in BOOLEAN :
            LET r == poll_once(db_events, cursor_row, current_ledger,
                               Fetched(page, next_cursor, latest_ledger),
                               insert_fail_at, save_fails)
            IN  /\ r.err => r.row = cursor_row
                /\ ~r.err =>
                      /\ r.row = [last_ledger |-> r.ret[1], last_cursor |-> r.ret[2]]
                      /\ \A k \in DOMAIN page :
                            page[k].topic # <<>> =>
                                Stored(r.table,
                                       decode_single(page[k], config_contract_id)[1])

\* The locals of the running loop move only in a step that leaves the new
\* position in the cursor row: a poll that fails keeps them.
C39_LocalsMoveWithCursor ==
    (running /\ running' /\ <<current_ledger', cursor'>> # <<current_ledger, cursor>>) =>
        cursor_row' = [last_ledger |-> current_ledger', last_cursor |-> cursor']

\* C39: the indexer skips no event.  A poll stores the notifications of its
\* page before it persists the position after the page, so whenever the
\* position has moved past a page every notification of that page is stored; a
\* poll that fails (fetch_events, an insert or save_cursor returns an error)
\* leaves the cursor row and the locals where they were, so the same request is
\* sent again, also after a restart.
C39_NeverSkips == []C39_PageStoredBeforeCursor /\ [][C39_LocalsMoveWithCursor]_vars

\* C40: no two different notifications a poll may deliver have the same key
\* (ledger, tx_hash, event_type, project_id), so insert_events stores both of
\* any two different notifications that are not in the table yet, and stores
\* every notification that differs from all the rows of the table.
C40_DistinctBothStored ==
    running =>
        /\ \A e1 \in IndexerEvents, e2 \in IndexerEvents :
              e1 # e2 =>
                  /\ event_key(e1) # event_key(e2)
                  /\ (~conflicts(db_events, e1) /\ ~conflicts(db_events, e2)) =>
                          LET r == insert_events(db_events, <<e1, e2>>, 0)
                          IN  r.count = 2 /\ r.table = db_events \o <<e1, e2>>
        /\ \A e \in IndexerEvents :
              (\A i \in DOMAIN db_events : db_events[i] # e) =>
                  insert_events(db_events, <<e>>, 0).table = Append(db_events, e)

====
